---- MODULE Spec2Model ----
(***************************************************************************)
(* Model of the trading-signal service: the webhook delivery engine        *)
(* (main_app/webhook_service.py, the delivery-status callback of           *)
(* main_app/api_views.py), the signal lifecycle (SignalManager in          *)
(* main_app/signal_service.py, execute_signal_api in main_app/views.py)    *)
(* and the signal-type fusion of SignalGenerator.                          *)
(*                                                                         *)
(* Three specifications share the variables:                               *)
(*   Spec        the delivery engine, run by concurrent workers            *)
(*   SpecSignal  the TradingSignal status lifecycle                        *)
(*   SpecFusion  the pure fusion functions, applied to enumerated inputs   *)
(***************************************************************************)
EXTENDS Integers, Sequences, FiniteSets, TLC

VARIABLES
    now,          \* timezone.now(), in seconds
    webhook_url,  \* APISubscriber.webhook_url per subscriber
    delivery,     \* the signal_deliveries table: one row (or none) per pair
    pc,           \* where each worker stands in its invocation
    loc,          \* the SignalDelivery object a worker holds in memory
    cur,          \* the (signal, subscriber) pair of that object
    attempt,      \* the loop variable of _deliver_webhook
    inv,          \* bookkeeping of the running invocation of a worker
    queue,        \* rows a retry_failed_deliveries sweep has still to visit
    posts,        \* number of HTTP POSTs each pair's endpoint has received
    ev,           \* the latest call that returned, and what it returned
    batch,        \* outcome of deliver_signal_to_all_subscribers per signal
    calls,        \* number of calls started so far
    signals,      \* the TradingSignal table: status and expiry per signal id
    epc,          \* where each execute_signal_api request stands
    eloc,         \* the TradingSignal object such a request holds in memory
    expiry,       \* what the latest expire_old_signals call returned
    issued,       \* ids of the signals generate_signal has created
    fusion,       \* inputs and result of one fusion of two signal types
    rows,         \* the signal_deliveries table as the database holds it
    next_pk,      \* the next primary key of that table
    goc,          \* where each worker stands in SignalDelivery.get_or_create
    goc_calls,    \* number of get_or_create calls started so far
    generated,    \* the TradingSignal rows signal generation has persisted
    metadata,     \* number of SignalMetadata rows per signal id
    gen,          \* the latest generate_signal call and what it returned
    cmd,          \* the generate_signals command: tickers left and attempted
    next_id,      \* the next primary key of the TradingSignal table
    gen_calls,    \* number of generate_signal calls made so far
    cache,        \* django.core.cache: the entry of each cache key
    api_key,      \* GPTNewsAnalyzer.api_key
    first,        \* the first analysis call made for each cache key
    an,           \* the latest analysis call and what it returned
    an_calls,     \* number of analysis calls made so far
    scoring,      \* one scoring: the articles, the scores and the signals
    secret_key,   \* APISubscriber.secret_key as the database holds it
    sign,         \* one _deliver_webhook call: its subscriber object, the
                  \* serialised payload, the signature and the attempt
    sent,         \* the POSTs of that call as they went over the wire
    rsi,          \* one _calculate_rsi call: the prices and the result
    subscriber,   \* the APISubscriber row: status, request_count,
                  \* last_accessed
    req,          \* where each request stands in api_key_required, and the
                  \* subscriber object it holds in memory
    served,       \* handler executions since the last reset of the counter
    resp,         \* the latest response of api_key_required
    auth_calls    \* number of requests started so far

dvars == <<webhook_url, delivery, pc, loc, cur, attempt, inv, queue, posts,
           ev, batch, calls>>
svars == <<signals, epc, eloc, expiry, issued>>
fvars == <<fusion>>
tvars == <<rows, next_pk, goc, goc_calls>>
gvars == <<generated, metadata, gen, cmd, next_id, gen_calls>>
cvars == <<cache, api_key, first, an, an_calls>>
xvars == <<scoring>>
hvars == <<secret_key, sign, sent>>
rvars == <<rsi>>
avars == <<subscriber, req, served, resp, auth_calls>>
ovars == <<tvars, gvars, cvars, xvars, hvars, rvars, avars>>
not_tvars == <<gvars, cvars, xvars, hvars, rvars, avars>>
not_gvars == <<tvars, cvars, xvars, hvars, rvars, avars>>
not_cvars == <<tvars, gvars, xvars, hvars, rvars, avars>>
not_xvars == <<tvars, gvars, cvars, hvars, rvars, avars>>
not_hvars == <<tvars, gvars, cvars, xvars, rvars, avars>>
not_rvars == <<tvars, gvars, cvars, xvars, hvars, avars>>
not_avars == <<tvars, gvars, cvars, xvars, hvars, rvars>>
vars  == <<now, dvars, svars, fvars, ovars>>

----------------------------------------------------------------------------
(* Bounds of the model *)

MaxCalls == 4          \* calls started in one behaviour of Spec
MaxSignals == 2        \* rows of the TradingSignal table in SpecSignal
MaxNow == 3            \* last clock value of SpecSignal

MaxRaceCalls == 2      \* calls started in one behaviour of SpecRace
MaxSweepCalls == 3     \* calls started in one behaviour of SpecSweepRace
MaxRowCalls == 3       \* get_or_create calls in one behaviour of SpecRows
MaxCacheCalls == 3     \* analysis calls in one behaviour of SpecCache
MaxCacheTicks == 3     \* half hours the clock of SpecCache runs
MaxArticles == 2       \* articles of one scoring in SpecScores
MaxText == 2           \* characters of a payload text in SpecSign
MaxPrices == 16        \* prices of a series in SpecRsi
MaxGenCalls == 2       \* generate_signal calls in one behaviour of SpecGenerate

Workers == {"w1", "w2"}
Sequential == "w1"     \* the worker of the sequential specification
SignalIds == {1}
Subscribers == {"alpha", "beta"}
Pairs == SignalIds \X Subscribers

NoTime == -1           \* a NULL DateTimeField

----------------------------------------------------------------------------
(* main_app/webhook_service.py *)

max_retry_attempts == 5
retry_delays == <<1, 5, 15, 60, 300>>

Urls == {"", "https://hook"}

\* The value standing for "no SignalDelivery row for this pair".
NoRow == [status |-> "absent"]

\* The row get_or_create inserts: the defaults of the call plus the
\* defaults of the model fields.
NewDelivery ==
    [status |-> "pending", delivery_attempts |-> 0, last_attempt |-> NoTime,
     next_retry |-> NoTime, error_message |-> "", delivered_at |-> NoTime]

\* The short circuit with its test of `created` turned around.
AlreadyDelivered_OnlyIfCreated(created, row) ==
    created /\ row.status = "delivered"

\* deliver_signal_to_subscriber, line 46: the short circuit.
AlreadyDelivered(created, row) == ~created /\ row.status = "delivered"

\* _deliver_webhook, lines 102-104: the in-memory changes before the POST.
BeforePost(d, att, t) ==
    [d EXCEPT !.delivery_attempts = d.delivery_attempts + 1,
              !.last_attempt = t,
              !.status = IF att > 0 THEN "retrying" ELSE "pending"]

\* A 200 response that leaves the error of an earlier attempt in the row.
OnSuccess_KeepsError(d, t) ==
    [d EXCEPT !.status = "delivered", !.delivered_at = t]

\* _deliver_webhook, lines 114-118: a 200 response.
OnSuccess(d, t) ==
    [d EXCEPT !.status = "delivered", !.delivered_at = t,
              !.error_message = ""]

\* _deliver_webhook, lines 123 and 130: the error text of a failed attempt.
ErrorText(outcome) ==
    IF outcome = "non200" THEN "HTTP error" ELSE "Request error"

\* The loop giving up one attempt early.
HasNextAttempt_OffByOne(att) == att < max_retry_attempts - 2

\* _deliver_webhook, line 137: is there another attempt after this one.
HasNextAttempt(att) == att < max_retry_attempts - 1

\* The failure path without lines 144-145: the final status is never set.
OnFailure_NoFinalStatus(d, att, outcome, t) ==
    IF att < max_retry_attempts - 1
    THEN [d EXCEPT !.error_message = ErrorText(outcome),
                   !.next_retry = t + retry_delays[att + 1]]
    ELSE [d EXCEPT !.error_message = ErrorText(outcome)]

\* _deliver_webhook, lines 122-145: a non-200 response or a network error,
\* up to the sleep or, after the last attempt, the final status.
OnFailure(d, att, outcome, t) ==
    IF HasNextAttempt(att)
    THEN [d EXCEPT !.error_message = ErrorText(outcome),
                   !.next_retry = t + retry_delays[att + 1]]
    ELSE [d EXCEPT !.error_message = ErrorText(outcome),
                   !.status = "failed"]

\* The filter of the sweep without its bound on delivery_attempts.
RetrySelected_AnyAttempts(row, t) ==
    /\ row.status = "failed"
    /\ row.next_retry # NoTime
    /\ row.next_retry <= t

\* retry_failed_deliveries, lines 198-202: the filter of the sweep.
RetrySelected(row, t) ==
    /\ row.status = "failed"
    /\ row.next_retry # NoTime
    /\ row.next_retry <= t
    /\ row.delivery_attempts < max_retry_attempts

\* Nothing running; no call returned yet; no batch run yet.
NoInv == [op |-> "none", pre |-> "none", n |-> 0, ok |-> 0, sel |-> {},
          visited |-> {}]
NoEv == [seq |-> 0, op |-> "none", pair |-> <<0, "">>, result |-> "none",
         pre |-> "none", n |-> 0, last |-> "none", count |-> 0]
NoBatch == [outcome |-> "none", attempted |-> {}, results |-> <<>>]

DeliveryInit ==
    /\ webhook_url = [sub \in Subscribers |-> "https://hook"]
    /\ delivery = [p \in Pairs |-> NoRow]
    /\ pc = [w \in Workers |-> "idle"]
    /\ loc = [w \in Workers |-> NoRow]
    /\ cur = [w \in Workers |-> <<0, "">>]
    /\ attempt = [w \in Workers |-> 0]
    /\ inv = [w \in Workers |-> NoInv]
    /\ queue = [w \in Workers |-> {}]
    /\ posts = [p \in Pairs |-> 0]
    /\ ev = NoEv
    /\ batch = [s \in SignalIds |-> NoBatch]
    /\ calls = 0

Returned(op, p, result, pre, n, last, count) ==
    [seq |-> ev.seq + 1, op |-> op, pair |-> p, result |-> result,
     pre |-> pre, n |-> n, last |-> last, count |-> count]

\* deliver_signal_to_subscriber, lines 28-56, up to the first attempt: the
\* webhook_url check, get_or_create, the short circuit on a delivered row.
DeliverToSubscriber(w, p) ==
    /\ pc[w] = "idle"
    /\ calls < MaxCalls
    /\ calls' = calls + 1
    /\ IF webhook_url[p[2]] = ""
       THEN /\ ev' = Returned("deliver", p, "False", delivery[p].status, 0,
                              "none", 0)
            /\ UNCHANGED <<delivery, pc, loc, cur, attempt, inv>>
       ELSE LET created == delivery[p] = NoRow
                row == IF created THEN NewDelivery ELSE delivery[p]
            IN /\ delivery' = [delivery EXCEPT ![p] = row]
               /\ IF AlreadyDelivered(created, row)
                  THEN /\ ev' = Returned("deliver", p, "True", row.status, 0,
                                         "none", 0)
                       /\ UNCHANGED <<pc, loc, cur, attempt, inv>>
                  ELSE /\ pc' = [pc EXCEPT ![w] = "attempt"]
                       /\ loc' = [loc EXCEPT ![w] = row]
                       /\ cur' = [cur EXCEPT ![w] = p]
                       /\ attempt' = [attempt EXCEPT ![w] = 0]
                       /\ inv' = [inv EXCEPT ![w] =
                                    [NoInv EXCEPT !.op = "deliver",
                                       !.pre = delivery[p].status]]
                       /\ UNCHANGED ev
    /\ UNCHANGED <<now, webhook_url, queue, posts, batch, svars, fvars, ovars>>

\* _deliver_webhook, lines 102-105: count the attempt, stamp it, set the
\* status and save the whole object over the row.
StartAttempt(w) ==
    /\ pc[w] = "attempt"
    /\ LET d == BeforePost(loc[w], attempt[w], now)
       IN /\ loc' = [loc EXCEPT ![w] = d]
          /\ delivery' = [delivery EXCEPT ![cur[w]] = d]
    /\ pc' = [pc EXCEPT ![w] = "post"]
    /\ UNCHANGED <<now, webhook_url, cur, attempt, inv, queue, posts, ev,
                   batch, calls, svars, fvars, ovars>>

\* What follows the return of _deliver_webhook: deliver_signal_to_subscriber
\* returns its value (line 56); retry_failed_deliveries counts a success
\* and goes on with its loop (lines 205-210).
AfterLoop(w, success, last) ==
    /\ ev' = Returned(inv[w].op, cur[w], IF success THEN "True" ELSE "False",
                      inv[w].pre, inv[w].n + 1, last, 0)
    /\ loc' = [loc EXCEPT ![w] = NoRow]
    /\ cur' = [cur EXCEPT ![w] = <<0, "">>]
    /\ attempt' = [attempt EXCEPT ![w] = 0]
    /\ IF inv[w].op = "sweep"
       THEN /\ pc' = [pc EXCEPT ![w] = "sweep"]
            /\ inv' = [inv EXCEPT ![w].n = 0, ![w].pre = "none",
                                  ![w].ok = @ + IF success THEN 1 ELSE 0]
       ELSE /\ pc' = [pc EXCEPT ![w] = "idle"]
            /\ inv' = [inv EXCEPT ![w] = NoInv]

\* _deliver_webhook, lines 107-145: the POST and what its outcome does.
Post(w, outcome) ==
    /\ pc[w] = "post"
    /\ posts' = [posts EXCEPT ![cur[w]] = @ + 1]
    /\ IF outcome = "200"
       THEN /\ delivery' = [delivery EXCEPT ![cur[w]] = OnSuccess(loc[w], now)]
            /\ AfterLoop(w, TRUE, outcome)
       ELSE LET d == OnFailure(loc[w], attempt[w], outcome, now)
            IN /\ delivery' = [delivery EXCEPT ![cur[w]] = d]
               /\ IF HasNextAttempt(attempt[w])
                  THEN /\ loc' = [loc EXCEPT ![w] = d]
                       /\ pc' = [pc EXCEPT ![w] = "sleep"]
                       /\ inv' = [inv EXCEPT ![w].n = @ + 1]
                       /\ UNCHANGED <<ev, cur, attempt>>
                  ELSE AfterLoop(w, FALSE, outcome)
    /\ UNCHANGED <<now, webhook_url, queue, batch, calls, svars, fvars, ovars>>

\* _deliver_webhook, line 141 and the next turn of the loop at line 100:
\* time.sleep(delay) is over once the clock has reached next_retry.
Wake(w) ==
    /\ pc[w] = "sleep"
    /\ now >= loc[w].next_retry
    /\ attempt' = [attempt EXCEPT ![w] = @ + 1]
    /\ pc' = [pc EXCEPT ![w] = "attempt"]
    /\ UNCHANGED <<now, webhook_url, delivery, loc, cur, inv, queue, posts,
                   ev, batch, calls, svars, fvars, ovars>>

\* Time passes while workers sleep: the clock moves to the earliest moment
\* at which a sleeping worker is due.
Sleepers == {w \in Workers : pc[w] = "sleep" /\ loc[w].next_retry > now}

PassTime ==
    /\ Sleepers # {}
    /\ \E w \in Sleepers :
          /\ \A v \in Sleepers : loc[w].next_retry <= loc[v].next_retry
          /\ now' = loc[w].next_retry
    /\ UNCHANGED <<dvars, svars, fvars, ovars>>

\* retry_failed_deliveries, lines 197-202: the query. Its rows are loaded
\* once, when the loop at line 205 starts; the loop then works on these
\* objects.
RetryFailedDeliveries(w) ==
    /\ pc[w] = "idle"
    /\ calls < MaxCalls
    /\ calls' = calls + 1
    /\ queue' = [queue EXCEPT ![w] =
                   {[pair |-> p, row |-> delivery[p]] :
                      p \in {q \in Pairs : /\ delivery[q] # NoRow
                                           /\ RetrySelected(delivery[q], now)}}]
    /\ pc' = [pc EXCEPT ![w] = "sweep"]
    /\ inv' = [inv EXCEPT ![w] =
                 [NoInv EXCEPT !.op = "sweep",
                    !.sel = {q \in Pairs : /\ delivery[q] # NoRow
                                           /\ RetrySelected(delivery[q], now)}]]
    /\ UNCHANGED <<now, webhook_url, delivery, loc, cur, attempt, posts, ev,
                   batch, svars, fvars, ovars>>

\* retry_failed_deliveries, lines 205-207: the next row of the loop enters
\* _deliver_webhook. The table has no default ordering, so any row may be
\* next.
RetryNext(w) ==
    /\ pc[w] = "sweep"
    /\ \E e \in queue[w] :
          /\ queue' = [queue EXCEPT ![w] = @ \ {e}]
          /\ loc' = [loc EXCEPT ![w] = e.row]
          /\ cur' = [cur EXCEPT ![w] = e.pair]
          /\ inv' = [inv EXCEPT ![w].pre = e.row.status,
                                ![w].visited = @ \cup {e.pair}]
    /\ attempt' = [attempt EXCEPT ![w] = 0]
    /\ pc' = [pc EXCEPT ![w] = "attempt"]
    /\ UNCHANGED <<now, webhook_url, delivery, posts, ev, batch, calls,
                   svars, fvars, ovars>>

\* retry_failed_deliveries, lines 212-213: the loop is over, the count of
\* successful retries is returned.
RetryReturn(w) ==
    /\ pc[w] = "sweep"
    /\ queue[w] = {}
    /\ ev' = Returned("retry_failed_deliveries", <<0, "">>, "none", "none",
                      0, "none", inv[w].ok)
    /\ pc' = [pc EXCEPT ![w] = "idle"]
    /\ inv' = [inv EXCEPT ![w] = NoInv]
    /\ UNCHANGED <<now, webhook_url, delivery, loc, cur, attempt, queue,
                   posts, batch, calls, svars, fvars, ovars>>

\* The subscribers and the signal of the model, as the tables hold them:
\* APISubscriber.status, subscribed_tickers, min_confidence_threshold (in
\* hundredths) and signal_types; TradingSignal.ticker, confidence (in
\* hundredths) and signal_type.
SubscriberStatus(sub) == "active"
SubscribedTickers(sub) == IF sub = "alpha" THEN {} ELSE {"AAPL"}
MinConfidenceThreshold(sub) == 50
SubscriberSignalTypes(sub) == IF sub = "alpha" THEN {} ELSE {"buy"}
SignalTicker(s) == "AAPL"
SignalConfidence(s) == 60
SignalTypeOf(s) == "buy"

\* deliver_signal_to_all_subscribers, lines 150-190. The queryset of
\* lines 155-158 is lazy; signal.ticker, a non-null foreign key, is truthy,
\* so line 163 evaluates Q(...), a name the module neither imports nor
\* defines (lines 6-14): the call raises NameError there, before any
\* subscriber is visited, and deliver_signal_webhook (lines 243-252), which
\* catches TradingSignal.DoesNotExist only, lets it through.
DeliverToAllSubscribers(s) ==
    /\ calls < MaxCalls
    /\ calls' = calls + 1
    /\ SignalTicker(s) # ""
    /\ batch' = [batch EXCEPT ![s] = [NoBatch EXCEPT !.outcome = "NameError"]]
    /\ ev' = Returned("deliver_all", <<s, "">>, "NameError", "none", 0,
                      "none", 0)
    /\ UNCHANGED <<now, webhook_url, delivery, pc, loc, cur, attempt, inv,
                   queue, posts, svars, fvars, ovars>>

----------------------------------------------------------------------------
(* main_app/api_views.py *)

\* The status values a callback body may carry: the handler takes any
\* non-empty string.
CallbackStatuses == {"delivered", "failed", "bounced"}
CallbackErrors == {"subscriber error"}

\* WebhookDeliveryStatusView.post, lines 287-294: the changes to the row.
StatusUpdate(d, status, error_message, t) ==
    [d EXCEPT !.status = status,
              !.delivery_attempts = d.delivery_attempts + 1,
              !.last_attempt = t,
              !.delivered_at = IF status = "delivered" THEN t ELSE @,
              !.error_message = IF status = "failed" THEN error_message
                                ELSE @]

\* WebhookDeliveryStatusView.post, lines 264-318: the inbound
\* delivery-status callback of a subscriber for one of its deliveries.
DeliveryStatusCallback(p, status, error_message) ==
    /\ calls < MaxCalls
    /\ calls' = calls + 1
    /\ IF delivery[p] = NoRow
       THEN /\ ev' = Returned("callback", p, "404", "absent", 0, "none", 0)
            /\ UNCHANGED delivery
       ELSE /\ delivery' = [delivery EXCEPT ![p] =
                              StatusUpdate(@, status, error_message, now)]
            /\ ev' = Returned("callback", p, "200", delivery[p].status, 0,
                              "none", 0)
    /\ UNCHANGED <<now, webhook_url, pc, loc, cur, attempt, inv, queue,
                   posts, batch, svars, fvars, ovars>>

\* SignalSubscriptionAPIView.post, lines 229-232: a subscriber sets its
\* webhook_url; no check is made on the value.
UpdateSubscription(sub, url) ==
    /\ calls < MaxCalls
    /\ calls' = calls + 1
    /\ webhook_url[sub] # url
    /\ webhook_url' = [webhook_url EXCEPT ![sub] = url]
    /\ UNCHANGED <<now, delivery, pc, loc, cur, attempt, inv, queue, posts,
                   ev, batch, svars, fvars, ovars>>

Outcomes == {"200", "non200", "network error"}

\* The attempt loop and its two callers, one invocation at a time
\* (deliveries are synchronous-sequential), with the delivery-status
\* callbacks of the subscribers arriving between any two of its steps.
NextLoop ==
    \/ \E p \in Pairs : DeliverToSubscriber(Sequential, p)
    \/ StartAttempt(Sequential)
    \/ \E o \in Outcomes : Post(Sequential, o)
    \/ Wake(Sequential)
    \/ PassTime
    \/ RetryFailedDeliveries(Sequential)
    \/ RetryNext(Sequential)
    \/ RetryReturn(Sequential)
    \/ \E p \in Pairs, st \in CallbackStatuses, e \in CallbackErrors :
          DeliveryStatusCallback(p, st, e)

\* The whole delivery engine: the loop and its callers, the batch delivery
\* and the subscription updates of the subscribers.
Next ==
    \/ NextLoop
    \/ \E s \in SignalIds : DeliverToAllSubscribers(s)
    \/ \E sub \in Subscribers, u \in Urls : UpdateSubscription(sub, u)

\* The delivery engine invoked from several workers at once (two Celery
\* tasks, or a task and a sweep): nothing in the module takes a lock.
NextRace ==
    \/ /\ calls < MaxRaceCalls
       /\ \E w \in Workers, p \in Pairs : DeliverToSubscriber(w, p)
    \/ \E w \in Workers : StartAttempt(w)
    \/ \E w \in Workers, o \in Outcomes : Post(w, o)
    \/ \E w \in Workers : Wake(w)
    \/ PassTime

----------------------------------------------------------------------------
(* The TradingSignal status lifecycle: main_app/models.py,                 *)
(* SignalManager.expire_old_signals, execute_signal_api                    *)

SignalRows == 1 .. MaxSignals
Requests == {"r1", "r2"}

NoSignal == [status |-> "absent"]

CreatedSignal_WithExpiry ==
    [status |-> "active", expiry_time |-> 1, execution_time |-> NoTime]

\* TradingSignal.objects.create as the three paths of SignalGenerator call
\* it (signal_service.py lines 129, 170, 214): status takes its default
\* 'active' and expiry_time, which no path passes, stays NULL.
CreatedSignal ==
    [status |-> "active", expiry_time |-> NoTime, execution_time |-> NoTime]

\* The rows the table may hold when the service starts: active signals
\* whose expiry_time is NULL or was set by whoever entered the row (the
\* field is an editable, nullable DateTimeField).
ExpiryTimes == {NoTime} \cup (1 .. MaxNow - 1)
StoredSignals ==
    {NoSignal} \cup {[CreatedSignal EXCEPT !.expiry_time = e] : e \in ExpiryTimes}

\* expire_old_signals, lines 630-632: the filter of the bulk update. A
\* NULL expiry_time never satisfies expiry_time__lt.
ExpirySelected_AnyStatus(row, t) ==
    /\ row.expiry_time # NoTime
    /\ row.expiry_time < t

ExpirySelected(row, t) ==
    /\ row.status = "active"
    /\ row.expiry_time # NoTime
    /\ row.expiry_time < t

\* execute_signal_api, line 1132: only an active signal is executed.
Executable(row) == row.status = "active"

\* No expire_old_signals call has been made, or another operation has run
\* since the latest one.
NoExpiry == [expired_count |-> 0, calls |-> 0]

SignalInit ==
    /\ signals \in [SignalRows -> StoredSignals]
    /\ expiry = NoExpiry
    /\ issued = {}
    /\ epc = [r \in Requests |-> "idle"]
    /\ eloc = [r \in Requests |-> [id |-> 0, row |-> NoSignal]]

\* SignalGenerator.generate_signal, when a path creates a signal.
GenerateSignal(id) ==
    /\ signals[id] = NoSignal
    /\ signals' = [signals EXCEPT ![id] = CreatedSignal]
    /\ issued' = issued \cup {id}
    /\ expiry' = NoExpiry
    /\ UNCHANGED <<now, epc, eloc, dvars, fvars, ovars>>

\* SignalManager.expire_old_signals, lines 628-636: one UPDATE statement,
\* whose count of updated rows is returned. expiry.calls counts the calls
\* made one right after the other, up to two.
ExpireOldSignals ==
    /\ signals' = [id \in SignalRows |->
                     IF signals[id] # NoSignal /\ ExpirySelected(signals[id], now)
                     THEN [signals[id] EXCEPT !.status = "expired"]
                     ELSE signals[id]]
    /\ expiry' = [expired_count |->
                     Cardinality({id \in SignalRows :
                                    /\ signals[id] # NoSignal
                                    /\ ExpirySelected(signals[id], now)}),
                  calls |-> IF expiry.calls < 2 THEN expiry.calls + 1 ELSE 2]
    /\ UNCHANGED <<now, epc, eloc, issued, dvars, fvars, ovars>>

\* execute_signal_api, lines 1127-1133: the signal is read and checked;
\* an unknown signal is answered 404, one that is not active 400.
ExecuteLoad(r, id) ==
    /\ epc[r] = "idle"
    /\ signals[id] # NoSignal
    /\ Executable(signals[id])
    /\ epc' = [epc EXCEPT ![r] = "loaded"]
    /\ eloc' = [eloc EXCEPT ![r] = [id |-> id, row |-> signals[id]]]
    /\ expiry' = NoExpiry
    /\ UNCHANGED <<now, signals, issued, dvars, fvars, ovars>>

\* execute_signal_api, lines 1136-1142: the object read before is marked
\* executed and saved over the row (calculate_performance may save the same
\* object once more).
ExecuteSave(r) ==
    /\ epc[r] = "loaded"
    /\ signals' = [signals EXCEPT ![eloc[r].id] =
                     [eloc[r].row EXCEPT !.status = "executed",
                                         !.execution_time = now]]
    /\ epc' = [epc EXCEPT ![r] = "idle"]
    /\ eloc' = [eloc EXCEPT ![r] = [id |-> 0, row |-> NoSignal]]
    /\ expiry' = NoExpiry
    /\ UNCHANGED <<now, issued, dvars, fvars, ovars>>

Tick ==
    /\ now < MaxNow
    /\ now' = now + 1
    /\ expiry' = NoExpiry
    /\ UNCHANGED <<signals, epc, eloc, issued, dvars, fvars, ovars>>

NextSignal ==
    \/ \E id \in SignalRows : GenerateSignal(id)
    \/ ExpireOldSignals
    \/ \E r \in Requests, id \in SignalRows : ExecuteLoad(r, id)
    \/ \E r \in Requests : ExecuteSave(r)
    \/ Tick

----------------------------------------------------------------------------
(* The fusion of two signal types: SignalGenerator._combine_signal_types    *)

SignalTypes == {"strong_sell", "sell", "hold", "buy", "strong_buy"}
BuyFamily == {"buy", "strong_buy"}
SellFamily == {"sell", "strong_sell"}

\* Confidences of the two contributing signals, in hundredths.
Confidences == {10, 50, 100}

\* The test for a strong type that knows the buy side only.
IsStrong_BuyOnly(t) == t = "strong_buy"

\* 'strong' in signal_type
IsStrong(t) == t \in {"strong_buy", "strong_sell"}

\* The fusion with opposed directions resolved in favour of the gpt type.
CombineSignalTypes_ConflictKeepsGpt(gpt_type, technical_type) ==
    IF gpt_type = technical_type THEN gpt_type
    ELSE IF IsStrong(gpt_type) /\ ~IsStrong(technical_type) THEN gpt_type
    ELSE IF IsStrong(technical_type) /\ ~IsStrong(gpt_type) THEN technical_type
    ELSE IF gpt_type \in BuyFamily /\ technical_type \in BuyFamily
         THEN "strong_buy"
    ELSE IF gpt_type \in SellFamily /\ technical_type \in SellFamily
         THEN "strong_sell"
    ELSE gpt_type

\* _combine_signal_types, lines 528-548.
CombineSignalTypes(gpt_type, technical_type) ==
    IF gpt_type = technical_type THEN gpt_type
    ELSE IF IsStrong(gpt_type) /\ ~IsStrong(technical_type) THEN gpt_type
    ELSE IF IsStrong(technical_type) /\ ~IsStrong(gpt_type) THEN technical_type
    ELSE IF gpt_type \in BuyFamily /\ technical_type \in BuyFamily
         THEN IF IsStrong(gpt_type) \/ IsStrong(technical_type)
              THEN "strong_buy" ELSE "buy"
    ELSE IF gpt_type \in SellFamily /\ technical_type \in SellFamily
         THEN IF IsStrong(gpt_type) \/ IsStrong(technical_type)
              THEN "strong_sell" ELSE "sell"
    ELSE "hold"

\* _generate_combined_signal, line 208, in thousandths.
CombinedConfidence(gpt_confidence, technical_confidence) ==
    gpt_confidence * 6 + technical_confidence * 4

FusionInit ==
    fusion \in [gpt_type : SignalTypes, gpt_confidence : Confidences,
                technical_type : SignalTypes,
                technical_confidence : Confidences,
                combined_type : {"none"}, combined_confidence : {-1}]

\* _generate_combined_signal, lines 206-211: both paths gave a signal.
Combine ==
    /\ fusion.combined_type = "none"
    /\ fusion' = [fusion EXCEPT
                    !.combined_type =
                        CombineSignalTypes(fusion.gpt_type,
                                           fusion.technical_type),
                    !.combined_confidence =
                        CombinedConfidence(fusion.gpt_confidence,
                                           fusion.technical_confidence)]
    /\ UNCHANGED <<now, dvars, svars, ovars>>

NextFusion == Combine

----------------------------------------------------------------------------
(* The signal_deliveries table under concurrent get_or_create calls:        *)
(* deliver_signal_to_subscriber lines 37-44, SignalDelivery.Meta line 836   *)

NoObject == [pc |-> "idle", pair |-> <<0, "">>, pk |-> 0, created |-> FALSE]

RowsOf(table, p) == {r \in table : r.pair = p}

\* models.py line 836, unique_together = ['signal', 'subscriber']: the
\* database refuses an INSERT of a second row for a pair.
UniqueTogether_NotEnforced(table, p) == TRUE
UniqueTogether(table, p) == RowsOf(table, p) = {}

RowsInit ==
    /\ rows = {}
    /\ next_pk = 1
    /\ goc = [w \in Workers |-> NoObject]
    /\ goc_calls = 0

\* get_or_create, first step: the SELECT for the pair. A row found is
\* returned with created = False; otherwise the call goes on to INSERT.
GetOrCreate(w, p) ==
    /\ goc[w].pc = "idle"
    /\ goc_calls < MaxRowCalls
    /\ goc_calls' = goc_calls + 1
    /\ IF RowsOf(rows, p) # {}
       THEN goc' = [goc EXCEPT ![w] =
                      [pc |-> "held", pair |-> p,
                       pk |-> (CHOOSE r \in RowsOf(rows, p) : TRUE).pk,
                       created |-> FALSE]]
       ELSE goc' = [goc EXCEPT ![w] =
                      [pc |-> "insert", pair |-> p, pk |-> 0, created |-> FALSE]]
    /\ UNCHANGED <<rows, next_pk>>
    /\ UNCHANGED <<now, dvars, svars, fvars, not_tvars>>

\* get_or_create, second step: the INSERT with the defaults of lines
\* 40-43. If the database refuses it (IntegrityError), get_or_create
\* SELECTs again.
InsertRow(w) ==
    /\ goc[w].pc = "insert"
    /\ IF UniqueTogether(rows, goc[w].pair)
       THEN /\ rows' = rows \cup {[pk |-> next_pk, pair |-> goc[w].pair,
                                    status |-> "pending", delivery_attempts |-> 0]}
            /\ next_pk' = next_pk + 1
            /\ goc' = [goc EXCEPT ![w].pc = "held", ![w].pk = next_pk,
                                  ![w].created = TRUE]
       ELSE /\ goc' = [goc EXCEPT ![w].pc = "select"]
            /\ UNCHANGED <<rows, next_pk>>
    /\ UNCHANGED <<goc_calls>>
    /\ UNCHANGED <<now, dvars, svars, fvars, not_tvars>>

\* get_or_create, third step: the SELECT after an IntegrityError returns
\* the row the other call inserted.
SelectAgain(w) ==
    /\ goc[w].pc = "select"
    /\ RowsOf(rows, goc[w].pair) # {}
    /\ goc' = [goc EXCEPT ![w].pc = "held",
                          ![w].pk = (CHOOSE r \in RowsOf(rows, goc[w].pair) : TRUE).pk]
    /\ UNCHANGED <<rows, next_pk, goc_calls>>
    /\ UNCHANGED <<now, dvars, svars, fvars, not_tvars>>

\* _deliver_webhook lines 102-105 and the later saves: delivery.save() of
\* an object that has a primary key UPDATEs the row of that key in place.
SaveRow(w) ==
    /\ goc[w].pc = "held"
    /\ rows' = {IF r.pk = goc[w].pk
                THEN [r EXCEPT !.delivery_attempts = 1, !.status = "failed"]
                ELSE r : r \in rows}
    /\ goc' = [goc EXCEPT ![w] = NoObject]
    /\ UNCHANGED <<next_pk, goc_calls>>
    /\ UNCHANGED <<now, dvars, svars, fvars, not_tvars>>

NextRows ==
    \/ \E w \in Workers, p \in Pairs : GetOrCreate(w, p)
    \/ \E w \in Workers : InsertRow(w)
    \/ \E w \in Workers : SelectAgain(w)
    \/ \E w \in Workers : SaveRow(w)

----------------------------------------------------------------------------
(* Signal generation: SignalGenerator.generate_signal and the               *)
(* generate_signals management command                                      *)

KnownTickers == {"AAPL", "MSFT"}
TickerSymbols == KnownTickers \cup {"ZZZZ"}
Sources == {"gpt_analysis", "market_data", "combined", "sentiment"}

\* What one generate_signal call meets: whether a database query of lines
\* 43-52 raises, whether the ticker has recent articles and whether they
\* carry scores after analysis, whether it has market data, whether the
\* scoring of a path raises, whether the creation of the combined signal
\* raises, and whether SignalMetadata.objects.create raises.
Environments ==
    [lookup_exc : BOOLEAN, articles : {"none", "unscored", "scored"},
     market : BOOLEAN, gpt_exc : BOOLEAN, tech_exc : BOOLEAN,
     combine_exc : BOOLEAN, meta_exc : BOOLEAN]

\* generate_signal lines 41-74: the try statement encloses every step of
\* the method, and except Exception returns None.
CaughtByGenerateSignal_PathOnly(step) == step = "path"
CaughtByGenerateSignal(step) == step \in {"lookup", "path", "metadata"}

\* _create_signal_metadata lines 259-286: the method catches and logs
\* every exception of its body itself.
CaughtByCreateMetadata == TRUE

\* _generate_gpt_signal lines 92-152: a signal is created only if there
\* are articles, at least one carries sentiment and impact, and nothing
\* raises (the method catches and returns None).
GptSignalMade(E) == E.articles = "scored" /\ ~E.gpt_exc

\* _generate_market_data_signal lines 156-191.
MarketSignalMade(E) == E.market /\ ~E.tech_exc

\* The rows a path leaves in the table, as the sources of the rows in the
\* order of their creation, and which of them it returns (0 for None).
\* Lines 59-66 and 193-255.
PathRows(source, E) ==
    CASE source = "gpt_analysis" ->
           IF GptSignalMade(E) THEN <<"gpt_analysis">> ELSE <<>>
      [] source = "market_data" ->
           IF MarketSignalMade(E) THEN <<"market_data">> ELSE <<>>
      [] source = "combined" ->
           (IF GptSignalMade(E) THEN <<"gpt_analysis">> ELSE <<>>)
              \o (IF MarketSignalMade(E) THEN <<"market_data">> ELSE <<>>)
              \o (IF GptSignalMade(E) /\ MarketSignalMade(E) /\ ~E.combine_exc
                  THEN <<"combined">> ELSE <<>>)
      [] OTHER -> <<>>

\* Position in PathRows of the row the path returns, 0 for None. The
\* combined path returns the combined row, or the only row there is.
PathReturns(source, E) ==
    LET made == PathRows(source, E)
    IN  IF source = "combined" /\ GptSignalMade(E) /\ MarketSignalMade(E)
        THEN IF E.combine_exc THEN 0 ELSE 3
        ELSE IF Len(made) >= 1 THEN 1 ELSE 0

\* Lines 244-246: the combined path deletes the two signals it fused.
PathDeletes(source, E) ==
    IF source = "combined" /\ Len(PathRows(source, E)) = 3 THEN {1, 2} ELSE {}

NoGen == [seq |-> 0, ticker |-> "", source |-> "", result |-> 0,
          raised |-> FALSE, by |-> "none", lookup_exc |-> FALSE,
          scoring_exc |-> FALSE]

NoCmd == [pc |-> "idle", list |-> <<>>, todo |-> <<>>, attempted |-> {},
          source |-> ""]

\* An exception was raised in the scoring of a path the call ran: in
\* _generate_gpt_signal once there are articles (lines 95-148), in
\* _generate_market_data_signal once there is market data (lines 159-187).
ScoringRaised(source, E) ==
    \/ source \in {"gpt_analysis", "combined"} /\ E.articles # "none" /\ E.gpt_exc
    \/ source \in {"market_data", "combined"} /\ E.market /\ E.tech_exc

GenerateInit ==
    /\ generated = {}
    /\ metadata = [id \in {} |-> 0]
    /\ gen = NoGen
    /\ cmd = NoCmd
    /\ next_id = 1
    /\ gen_calls = 0

\* The exception, if any, that leaves generate_signal for its caller.
Raises(ticker, source, E) ==
    \/ E.lookup_exc /\ ~CaughtByGenerateSignal("lookup")
    \/ /\ ~E.lookup_exc /\ ticker \in KnownTickers
       /\ PathReturns(source, E) # 0
       /\ E.meta_exc /\ ~CaughtByCreateMetadata
       /\ ~CaughtByGenerateSignal("metadata")

\* One generate_signal call, lines 30-74, by the caller named.
GenerateSignalBy(by, ticker, source, E) ==
    LET reaches == ~E.lookup_exc /\ ticker \in KnownTickers
        made    == IF reaches THEN PathRows(source, E) ELSE <<>>
        ret     == IF reaches THEN PathReturns(source, E) ELSE 0
        dropped == IF reaches THEN PathDeletes(source, E) ELSE {}
        idOf(k) == next_id + k - 1
        result  == IF ret = 0 THEN 0 ELSE idOf(ret)
    IN  /\ gen_calls < MaxGenCalls
        /\ gen_calls' = gen_calls + 1
        /\ next_id' = next_id + Len(made)
        /\ generated' = generated \cup
               {[id |-> idOf(k), source |-> made[k], ticker |-> ticker] :
                   k \in DOMAIN made \ dropped}
        /\ metadata' = [id \in DOMAIN metadata \cup
                                {idOf(k) : k \in DOMAIN made \ dropped} |->
                          IF id \in DOMAIN metadata THEN metadata[id]
                          ELSE IF id = result /\ ~E.meta_exc THEN 1 ELSE 0]
        /\ gen' = [seq |-> gen.seq + 1, ticker |-> ticker, source |-> source,
                   result |-> IF Raises(ticker, source, E) THEN 0 ELSE result,
                   raised |-> Raises(ticker, source, E), by |-> by,
                   lookup_exc |-> E.lookup_exc,
                   scoring_exc |-> reaches /\ ScoringRaised(source, E)]

\* A direct call of generate_signal.
GenerateSignalCall(ticker, source, E) ==
    /\ cmd.pc = "idle"
    /\ GenerateSignalBy("caller", ticker, source, E)
    /\ UNCHANGED cmd
    /\ UNCHANGED <<now, dvars, svars, fvars, not_gvars>>

\* The generate_signals command, lines 58-88: the tickers to process are
\* those of the list that the database knows; --source admits the three
\* sources only.
StartCommand(symbols, source) ==
    /\ cmd.pc = "idle"
    /\ gen_calls < MaxGenCalls
    /\ cmd' = [pc |-> "loop", list |-> symbols, todo |-> symbols,
               attempted |-> {}, source |-> source]
    /\ UNCHANGED <<generated, metadata, gen, next_id, gen_calls>>
    /\ UNCHANGED <<now, dvars, svars, fvars, not_gvars>>

\* The loop of lines 95-102: generate_signal is called for the next
\* ticker of the list.
CommandCall(E) ==
    /\ cmd.pc = "loop"
    /\ cmd.todo # <<>>
    /\ GenerateSignalBy("command", Head(cmd.todo), cmd.source, E)
    /\ cmd' = [cmd EXCEPT !.pc = "returned", !.todo = Tail(cmd.todo),
                          !.attempted = cmd.attempted \cup {Head(cmd.todo)}]
    /\ UNCHANGED <<now, dvars, svars, fvars, not_gvars>>

\* Lines 104-129: a signal below --min-confidence is deleted (its metadata
\* goes with it, on_delete=CASCADE); None is counted as skipped; an
\* exception is caught and logged. In each case the loop goes on.
CommandHandle(low_confidence) ==
    /\ cmd.pc = "returned"
    /\ IF gen.result # 0 /\ ~gen.raised /\ low_confidence
       THEN /\ generated' = {g \in generated : g.id # gen.result}
            /\ metadata' = [id \in DOMAIN metadata \ {gen.result} |-> metadata[id]]
       ELSE UNCHANGED <<generated, metadata>>
    /\ cmd' = [cmd EXCEPT !.pc = "loop"]
    /\ UNCHANGED <<gen, next_id, gen_calls>>
    /\ UNCHANGED <<now, dvars, svars, fvars, not_gvars>>

\* Lines 131-140: the loop is over and the summary is written.
CommandEnd ==
    /\ cmd.pc = "loop"
    /\ cmd.todo = <<>>
    /\ cmd' = [cmd EXCEPT !.pc = "done"]
    /\ UNCHANGED <<generated, metadata, gen, next_id, gen_calls>>
    /\ UNCHANGED <<now, dvars, svars, fvars, not_gvars>>

CommandLists == {<<"AAPL">>, <<"AAPL", "MSFT">>, <<"MSFT", "AAPL">>}
CommandSources == {"gpt_analysis", "market_data", "combined"}

NextGenerate ==
    \/ \E t \in TickerSymbols, src \in Sources, E \in Environments :
          GenerateSignalCall(t, src, E)
    \/ \E l \in CommandLists, src \in CommandSources : StartCommand(l, src)
    \/ \E E \in Environments : CommandCall(E)
    \/ \E low \in BOOLEAN : CommandHandle(low)
    \/ CommandEnd

----------------------------------------------------------------------------
(* The cached classifier calls of main_app/gpt_service.py:                  *)
(* analyze_article_sentiment and classify_news_impact                       *)

cache_duration == 3600
HalfHour == cache_duration \div 2

Kinds == {"sentiment", "impact"}
Articles == {1, 2}
CacheKeys == Kinds \X Articles

\* What the classifier answers when it answers, and the default of
\* _get_default_sentiment and _get_default_impact (model = 'default').
Responses(kind) ==
    IF kind = "sentiment" THEN {"positive", "negative"} ELSE {"high", "low"}
Default(kind) ==
    IF kind = "sentiment" THEN "neutral (default)" ELSE "medium (default)"

NoEntry == [value |-> "none", expires |-> 0]
NoFirst == [result |-> "none", at |-> NoTime, from |-> "none"]
NoAn == [seq |-> 0, key |-> <<"", 0>>, result |-> "none", invoked |-> FALSE,
         repeat |-> FALSE]

\* cache.set(cache_key, result, self.cache_duration), lines 68 and 109.
Expiry_HalfHour(t) == t + cache_duration \div 2
Expiry(t) == t + cache_duration

\* cache.get(cache_key), lines 38 and 81: an entry that has not expired.
CacheHit(key, t) == cache[key] # NoEntry /\ t < cache[key].expires

CacheInit ==
    /\ cache = [k \in CacheKeys |-> NoEntry]
    /\ api_key \in BOOLEAN
    /\ first = [k \in CacheKeys |-> NoFirst]
    /\ an = NoAn
    /\ an_calls = 0

\* analyze_article_sentiment (lines 35-76) and classify_news_impact (lines
\* 78-114): a cached result is returned; without api_key the default is
\* returned; otherwise the classifier is invoked, its result is cached and
\* returned, and if it raises the default is returned, uncached.
Analyze(kind, article, outcome) ==
    LET key == <<kind, article>>
        hit == CacheHit(key, now)
        invoked == ~hit /\ api_key
        result == IF hit THEN cache[key].value
                  ELSE IF ~api_key \/ outcome = "failure" THEN Default(kind)
                  ELSE outcome
        from == IF hit THEN "cache"
                ELSE IF ~api_key THEN "unavailable"
                ELSE IF outcome = "failure" THEN "failure" ELSE "classifier"
    IN  /\ an_calls < MaxCacheCalls
        /\ an_calls' = an_calls + 1
        /\ cache' = IF invoked /\ outcome # "failure"
                    THEN [cache EXCEPT ![key] =
                            [value |-> result, expires |-> Expiry(now)]]
                    ELSE cache
        /\ first' = IF first[key] = NoFirst
                    THEN [first EXCEPT ![key] =
                            [result |-> result, at |-> now, from |-> from]]
                    ELSE first
        /\ an' = [seq |-> an.seq + 1, key |-> key, result |-> result,
                  invoked |-> invoked, repeat |-> first[key] # NoFirst]
        /\ UNCHANGED api_key
        /\ UNCHANGED <<now, dvars, svars, fvars, not_cvars>>

\* Half an hour passes.
CacheTick ==
    /\ now < MaxCacheTicks * HalfHour
    /\ now' = now + HalfHour
    /\ UNCHANGED <<dvars, svars, fvars, ovars>>

NextCache ==
    \/ \E kind \in Kinds, a \in Articles :
          \E o \in Responses(kind) \cup {"failure"} : Analyze(kind, a, o)
    \/ CacheTick

----------------------------------------------------------------------------
(* The scores of the three paths: _generate_gpt_signal lines 102-126,       *)
(* _calculate_signal_from_scores, _calculate_technical_signal and the       *)
(* confidence of _generate_combined_signal.                                 *)
(* Numbers are exact: a label's score is in tenths, a confidence of an      *)
(* article in tenths, an overall technical score in hundredths, and the     *)
(* confidence of a signal is a fraction [num, den].                         *)

\* A sentiment score that reaches 1.0 on both sides.
SentimentToScore_Unit(sentiment) ==
    CASE sentiment = "positive" -> 10
      [] sentiment = "negative" -> -10
      [] OTHER -> 0

\* _sentiment_to_score, lines 288-295, in tenths.
SentimentToScore(sentiment) ==
    CASE sentiment = "positive" -> 7
      [] sentiment = "negative" -> -7
      [] OTHER -> 0

\* _impact_to_score, lines 297-304, in tenths.
ImpactToScore(impact) ==
    CASE impact = "high" -> 10
      [] impact = "medium" -> 5
      [] impact = "low" -> 2
      [] OTHER -> 0

\* Lines 116-117: (confidence or 0.5), in tenths; a confidence of None or
\* of 0.0 counts as 0.5.
OrHalf(confidence) == IF confidence = 0 THEN 5 ELSE confidence

\* The articles of a scoring as the path finds them: the labels ("" for
\* none) and their confidences in tenths. The classifier's confidence is
\* stored as it was parsed (views.py line 384, analyze_news.py line 100),
\* so that a value above 1 can be met.
SentimentLabels == {"positive", "negative", "neutral", ""}
ImpactLabels == {"high", "medium", "low", ""}
ArticleConfidences == {<<8, 9>>, <<10, 10>>, <<0, 0>>, <<20, 20>>}
ScoredArticles ==
    {[gpt_sentiment |-> sl, gpt_impact |-> il,
      gpt_sentiment_confidence |-> c[1], gpt_impact_confidence |-> c[2]] :
        sl \in SentimentLabels, il \in ImpactLabels, c \in ArticleConfidences}
ArticleLists == UNION {[1 .. n -> ScoredArticles] : n \in 1 .. MaxArticles}

\* Line 112: an article counts if it has both a sentiment and an impact.
Analyzed(article) == article.gpt_sentiment # "" /\ article.gpt_impact # ""

\* Lines 102-118: the sums over the analyzed articles, in hundredths, and
\* the number of analyzed articles.
RECURSIVE TotalSentiment(_)
TotalSentiment(articles) ==
    IF articles = <<>> THEN 0
    ELSE (IF Analyzed(Head(articles))
          THEN SentimentToScore(Head(articles).gpt_sentiment)
                  * OrHalf(Head(articles).gpt_sentiment_confidence)
          ELSE 0) + TotalSentiment(Tail(articles))

RECURSIVE TotalImpact(_)
TotalImpact(articles) ==
    IF articles = <<>> THEN 0
    ELSE (IF Analyzed(Head(articles))
          THEN ImpactToScore(Head(articles).gpt_impact)
                  * OrHalf(Head(articles).gpt_impact_confidence)
          ELSE 0) + TotalImpact(Tail(articles))

RECURSIVE AnalyzedCount(_)
AnalyzedCount(articles) ==
    IF articles = <<>> THEN 0
    ELSE (IF Analyzed(Head(articles)) THEN 1 ELSE 0) + AnalyzedCount(Tail(articles))

Abs(x) == IF x < 0 THEN -x ELSE x
Min(x, y) == IF x < y THEN x ELSE y
Max(x, y) == IF x > y THEN x ELSE y

\* _calculate_signal_from_scores, lines 315-332, called with
\* avg_sentiment = total_sentiment / count and avg_impact = total_impact /
\* count (lines 123-124), the totals in hundredths. combined_score is
\* combined / (1000 * count); the confidence is num / den.
CalculateSignalFromScores_EvenWeights(total_sentiment, total_impact, count) ==
    LET combined == 5 * total_sentiment + 5 * total_impact
        den      == 100000 * count * count
    IN  [signal_type |->
            IF combined > 500 * count
            THEN (IF combined > 800 * count THEN "strong_buy" ELSE "buy")
            ELSE IF combined < -500 * count
            THEN (IF combined < -800 * count THEN "strong_sell" ELSE "sell")
            ELSE "hold",
         confidence |->
            [num |-> Max(Min(Abs(combined) * total_impact, den), den \div 10),
             den |-> den]]

CalculateSignalFromScores(total_sentiment, total_impact, count) ==
    LET combined == 7 * total_sentiment + 3 * total_impact
        den      == 100000 * count * count
    IN  [signal_type |->
            IF combined > 500 * count
            THEN (IF combined > 800 * count THEN "strong_buy" ELSE "buy")
            ELSE IF combined < -500 * count
            THEN (IF combined < -800 * count THEN "strong_sell" ELSE "sell")
            ELSE "hold",
         confidence |->
            [num |-> Max(Min(Abs(combined) * total_impact, den), den \div 10),
             den |-> den]]

\* The overall scores _calculate_technical_indicators returns, lines
\* 404-431: 0.5 moved by steps of 0.05 and clamped to [0, 1]; in
\* hundredths.
OverallScores == {5 * k : k \in 0 .. 20}

\* _calculate_technical_signal, lines 506-526, overall_score in hundredths.
CalculateTechnicalSignal_NoAbs(overall_score) ==
    [signal_type |->
        IF overall_score > 70 THEN "strong_buy"
        ELSE IF overall_score > 60 THEN "buy"
        ELSE IF overall_score < 30 THEN "strong_sell"
        ELSE IF overall_score < 40 THEN "sell"
        ELSE "hold",
     confidence |-> [num |-> (overall_score - 50) * 2, den |-> 100]]

CalculateTechnicalSignal(overall_score) ==
    [signal_type |->
        IF overall_score > 70 THEN "strong_buy"
        ELSE IF overall_score > 60 THEN "buy"
        ELSE IF overall_score < 30 THEN "strong_sell"
        ELSE IF overall_score < 40 THEN "sell"
        ELSE "hold",
     confidence |-> [num |-> Max(Abs(overall_score - 50) * 2, 10), den |-> 100]]

\* _generate_combined_signal, line 208: 0.6 of the one confidence plus 0.4
\* of the other, as a fraction.
WeightedConfidence(gpt, technical) ==
    [num |-> 6 * gpt.num * technical.den + 4 * technical.num * gpt.den,
     den |-> 10 * gpt.den * technical.den]

NoSignalScore == [signal_type |-> "none", confidence |-> [num |-> 0, den |-> 1]]

ScoresInit ==
    \E articles \in ArticleLists :
        scoring = [phase |-> "articles", articles |-> articles,
                   total_sentiment |-> 0, total_impact |-> 0,
                   analyzed_count |-> 0, overall_score |-> 0,
                   gpt |-> NoSignalScore, technical |-> NoSignalScore,
                   combined |-> NoSignalScore]

\* Lines 103-108: for an article without gpt_sentiment the path calls
\* self.gpt_analyzer.analyze_article, a method GPTNewsAnalyzer does not
\* have: the AttributeError ends the path in its except branch (lines
\* 150-152) with no signal.
AnalysisRaises(articles) ==
    \E k \in DOMAIN articles : articles[k].gpt_sentiment = ""

\* _generate_gpt_signal, lines 102-139: the signal the gpt_analysis path
\* persists, none if no article was analyzed.
GptScore ==
    /\ scoring.phase = "articles"
    /\ LET raises == AnalysisRaises(scoring.articles)
           ts == IF raises THEN 0 ELSE TotalSentiment(scoring.articles)
           ti == IF raises THEN 0 ELSE TotalImpact(scoring.articles)
           n  == IF raises THEN 0 ELSE AnalyzedCount(scoring.articles)
       IN  scoring' = [scoring EXCEPT
               !.phase = "gpt",
               !.articles = <<>>,
               !.total_sentiment = ts, !.total_impact = ti,
               !.analyzed_count = n,
               !.gpt = IF n = 0 THEN NoSignalScore
                       ELSE CalculateSignalFromScores(ts, ti, n)]
    /\ UNCHANGED <<now, dvars, svars, fvars, not_xvars>>

\* _generate_market_data_signal, lines 161-180: the signal the market_data
\* path persists.
TechnicalScore(overall_score) ==
    /\ scoring.phase = "gpt"
    /\ scoring' = [scoring EXCEPT
           !.phase = "technical",
           !.overall_score = overall_score,
           !.technical = CalculateTechnicalSignal(overall_score)]
    /\ UNCHANGED <<now, dvars, svars, fvars, not_xvars>>

\* _generate_combined_signal, lines 205-223: the signal the combined path
\* persists when both paths gave one.
CombineScores ==
    /\ scoring.phase = "technical"
    /\ scoring.gpt # NoSignalScore
    /\ scoring' = [scoring EXCEPT
           !.phase = "combined",
           !.combined =
               [signal_type |-> CombineSignalTypes(scoring.gpt.signal_type,
                                                   scoring.technical.signal_type),
                confidence |-> WeightedConfidence(scoring.gpt.confidence,
                                                  scoring.technical.confidence)]]
    /\ UNCHANGED <<now, dvars, svars, fvars, not_xvars>>

NextScores ==
    \/ GptScore
    \/ \E o \in OverallScores : TechnicalScore(o)
    \/ CombineScores

----------------------------------------------------------------------------
(* The signature of a webhook: WebhookDeliveryService._deliver_webhook and
   api_auth.py.  Text is a sequence of code points, bytes are a sequence of
   numbers in 0..255. *)

\* The characters a payload text is made of: A, the quotation mark, e with
\* an acute accent and the euro sign.
CodePoints == {65, 34, 233, 8364}

PayloadTexts == UNION {[1..n -> CodePoints] : n \in 1..MaxText}

\* secrets.token_urlsafe gives ASCII text: "s1", "s2".
Secrets == {<<115, 49>>, <<115, 50>>}

\* The digits json.dumps writes in a \uXXXX escape: 0-9, a-f.
HexDigit(n) == IF n < 10 THEN 48 + n ELSE 87 + n

\* A serialisation that leaves characters outside ASCII as they are.
EscapeAscii_KeepsUnicode(c) ==
    IF c = 34 THEN <<92, 34>> ELSE <<c>>

\* json.dumps(payload), line 89, with its default ensure_ascii=True: one
\* character of a string as the serialisation writes it.
EscapeAscii(c) ==
    IF c = 34 THEN <<92, 34>>
    ELSE IF c < 128 THEN <<c>>
    ELSE <<92, 117, HexDigit(c \div 4096), HexDigit((c \div 256) % 16),
           HexDigit((c \div 16) % 16), HexDigit(c % 16)>>

RECURSIVE EscapeText(_)
EscapeText(text) ==
    IF text = <<>> THEN <<>>
    ELSE EscapeAscii(Head(text)) \o EscapeText(Tail(text))

\* The string literal json.dumps writes for a text of the payload.
JsonDumps(text) == <<34>> \o EscapeText(text) \o <<34>>

\* str.encode('utf-8'), one character.
EncodeUtf8(c) ==
    IF c < 128 THEN <<c>>
    ELSE IF c < 2048 THEN <<192 + (c \div 64), 128 + (c % 64)>>
    ELSE <<224 + (c \div 4096), 128 + ((c \div 64) % 64), 128 + (c % 64)>>

RECURSIVE Utf8(_)
Utf8(text) ==
    IF text = <<>> THEN <<>>
    ELSE EncodeUtf8(Head(text)) \o Utf8(Tail(text))

\* requests.post(data=payload_json), lines 106-111, is given a str: the
\* HTTP library below it turns the str into bytes, as ISO-8859-1 or as
\* UTF-8 depending on the library installed.
WireEncodings == {"iso-8859-1", "utf-8"}

UnicodeEncodeError == <<"UnicodeEncodeError">>

WireBytes(text, encoding) ==
    IF encoding = "utf-8" THEN Utf8(text)
    ELSE IF \E k \in DOMAIN text : text[k] > 255 THEN UnicodeEncodeError
    ELSE text

\* hmac.new(key, msg, hashlib.sha256).hexdigest(): a function of the key
\* bytes and the message bytes, taken to be free of collisions.
HmacSha256Hex(key, msg) == [alg |-> "sha256", key |-> key, msg |-> msg]

\* api_auth.generate_webhook_signature.
generate_webhook_signature(secret, payload) ==
    HmacSha256Hex(Utf8(secret), payload)

\* webhook_signature_required, lines 159-170: the check a receiver holding
\* the secret makes on the raw body of a request.
SignatureAccepted(signature, body, secret) ==
    signature = HmacSha256Hex(Utf8(secret), body)

NoSign == [pc |-> "idle", subscriber |-> "", secret |-> <<>>,
           payload_json |-> <<>>, signature |-> <<>>, attempt |-> 0]

SignInit ==
    /\ secret_key \in [Subscribers -> Secrets]
    /\ sign = NoSign
    /\ sent = <<>>

\* _deliver_webhook, lines 89-98: the payload is serialised and signed once,
\* with the secret_key of the subscriber object the caller passed.
DeliverWebhook(sub, text) ==
    /\ sign.pc = "idle"
    /\ sign' = [pc |-> "loop", subscriber |-> sub,
                secret |-> secret_key[sub],
                payload_json |-> JsonDumps(text),
                signature |->
                    generate_webhook_signature(secret_key[sub],
                                               Utf8(JsonDumps(text))),
                attempt |-> 0]
    /\ sent' = <<>>
    /\ UNCHANGED <<secret_key, now, dvars, svars, fvars, not_hvars>>

\* One pass of the attempt loop, lines 100-134, as far as the request goes:
\* the same payload_json and the same headers are posted at every attempt.
\* A str that the HTTP library cannot encode raises UnicodeEncodeError,
\* which is no RequestException and leaves _deliver_webhook.
SignedPost(outcome, encoding) ==
    /\ sign.pc = "loop"
    /\ LET body == WireBytes(sign.payload_json, encoding)
       IN  IF body = UnicodeEncodeError
           THEN /\ sign' = [sign EXCEPT !.pc = "raised",
                                        !.attempt = sign.attempt + 1]
                /\ sent' = sent
           ELSE /\ sent' = Append(sent, [body |-> body,
                                         signature |-> sign.signature,
                                         subscriber |-> sign.subscriber])
                /\ sign' = [sign EXCEPT
                       !.attempt = sign.attempt + 1,
                       !.pc = IF outcome = "200"
                                 \/ sign.attempt + 1 = max_retry_attempts
                              THEN "done" ELSE "loop"]
    /\ UNCHANGED <<secret_key, now, dvars, svars, fvars, not_hvars>>

\* views.regenerate_api_key, lines 1331-1339: the row gets a new secret; the
\* subscriber object a running _deliver_webhook holds is another object.
RegenerateApiKey(sub, secret) ==
    /\ secret_key[sub] # secret
    /\ secret_key' = [secret_key EXCEPT ![sub] = secret]
    /\ UNCHANGED <<sign, sent, now, dvars, svars, fvars, not_hvars>>

NextSign ==
    \/ \E sub \in Subscribers : \E text \in PayloadTexts :
           DeliverWebhook(sub, text)
    \/ \E outcome \in Outcomes : \E encoding \in WireEncodings :
           SignedPost(outcome, encoding)
    \/ \E sub \in Subscribers : \E secret \in Secrets :
           RegenerateApiKey(sub, secret)

----------------------------------------------------------------------------
(* The relative strength index: SignalGenerator._calculate_rsi.  Prices are
   whole numbers of the smallest price step (close_price has four decimal
   places); a result is an exact fraction. *)

period == 14

PriceLevels == {1, 2}

PriceSeries == UNION {[1..n -> PriceLevels] : n \in 0..MaxPrices}

\* Line 453: deltas[i] = prices[i] - prices[i-1].
Deltas(prices) ==
    [i \in 1..(IF Len(prices) = 0 THEN 0 ELSE Len(prices) - 1) |->
        prices[i + 1] - prices[i]]

\* Lines 454-455.
Gains(deltas) ==
    [i \in DOMAIN deltas |-> IF deltas[i] > 0 THEN deltas[i] ELSE 0]

Losses(deltas) ==
    [i \in DOMAIN deltas |-> IF deltas[i] < 0 THEN 0 - deltas[i] ELSE 0]

\* A slice that keeps the whole list.
LastN_Whole(seq, n) == seq

\* seq[-n:], lines 457-458.
LastN(seq, n) ==
    IF Len(seq) <= n THEN seq ELSE SubSeq(seq, Len(seq) - n + 1, Len(seq))

RECURSIVE Sum(_)
Sum(seq) == IF seq = <<>> THEN 0 ELSE Head(seq) + Sum(Tail(seq))

\* np.mean.
Mean(seq) == [num |-> Sum(seq), den |-> Len(seq)]

\* _calculate_rsi, lines 449-467.
CalculateRsi(prices) ==
    IF Len(prices) < period + 1 THEN [num |-> 50, den |-> 1]
    ELSE LET deltas   == Deltas(prices)
             avg_gain == Mean(LastN(Gains(deltas), period))
             avg_loss == Mean(LastN(Losses(deltas), period))
         IN  IF avg_loss.num = 0 THEN [num |-> 100, den |-> 1]
             ELSE LET rs == [num |-> avg_gain.num * avg_loss.den,
                             den |-> avg_gain.den * avg_loss.num]
                      \* 100 / (1 + rs)
                      quotient == [num |-> 100 * rs.den,
                                   den |-> rs.den + rs.num]
                  IN  [num |-> 100 * quotient.den - quotient.num,
                       den |-> quotient.den]

NoRsi == [num |-> 0, den |-> 0]

RsiInit ==
    \E prices \in PriceSeries : rsi = [prices |-> prices, result |-> NoRsi]

\* _calculate_technical_indicators, line 384: rsi = _calculate_rsi(closes).
CalculateTechnicalRsi ==
    /\ rsi.result = NoRsi
    /\ rsi' = [rsi EXCEPT !.result = CalculateRsi(rsi.prices)]
    /\ UNCHANGED <<now, dvars, svars, fvars, not_rvars>>

NextRsi == CalculateTechnicalRsi

----------------------------------------------------------------------------
(* api_key_required and the request counter of APISubscriber                *)

\* APISubscriber.STATUS_CHOICES, main_app/models.py lines 707-712.
SubscriberStatuses == {"active", "inactive", "suspended", "pending"}

\* The X-API-Key header of a request: absent, a key no subscriber has, or
\* the key of the subscriber.
SubscriberKey == "k1"
RequestKeys == {"", "k0", SubscriberKey}

\* rate_limit_per_hour of the subscriber (the field's default is 1000).
rate_limit_per_hour == 2

\* timedelta(hours=1), in ticks of the clock.
OneHour == 2

MaxAuthRequests == 5   \* requests started in one behaviour
MaxAuthNow == 4        \* last clock value of the request specifications

\* A subscriber as the admin creates it: status 'pending', request_count 0,
\* last_accessed NULL.
NewSubscriber ==
    [status |-> "pending", request_count |-> 0, last_accessed |-> NoTime]

NoRequest == [pc |-> "idle", obj |-> NewSubscriber, key |-> "", ran |-> FALSE]

NoResponse == [seq |-> 0, key |-> "", code |-> 0, ran |-> FALSE]

AuthInit ==
    /\ subscriber = NewSubscriber
    /\ req = [w \in Workers |-> NoRequest]
    /\ served = 0
    /\ resp = NoResponse
    /\ auth_calls = 0

\* JsonResponse(..., status=code), or the response of the view (200).
Respond(key, code, ran) ==
    resp' = [seq |-> resp.seq + 1, key |-> key, code |-> code, ran |-> ran]

\* is_rate_limited, line 765: more than an hour since last_accessed.
WindowElapsed(obj, t) ==
    /\ obj.last_accessed # NoTime
    /\ t - obj.last_accessed > OneHour

\* is_rate_limited, lines 765-767: the in-memory object after the reset.
AfterReset(obj, t) ==
    IF WindowElapsed(obj, t) THEN [obj EXCEPT !.request_count = 0] ELSE obj

IsRateLimited_Above(obj) == obj.request_count > rate_limit_per_hour

\* is_rate_limited, line 769.
IsRateLimited(obj) == obj.request_count >= rate_limit_per_hour

\* api_key_required, lines 55-76: the header, APISubscriber.objects.get and
\* the status check. The subscriber object is loaded here and is the one
\* the rest of the request works on.
AuthLoad(w, key) ==
    /\ req[w].pc = "idle"
    /\ auth_calls < MaxAuthRequests
    /\ auth_calls' = auth_calls + 1
    /\ IF key # SubscriberKey
       THEN /\ Respond(key, 401, FALSE)
            /\ UNCHANGED req
       ELSE IF subscriber.status # "active"
       THEN /\ Respond(key, 403, FALSE)
            /\ UNCHANGED req
       ELSE /\ req' = [req EXCEPT ![w] = [pc |-> "check", obj |-> subscriber,
                                          key |-> key, ran |-> FALSE]]
            /\ UNCHANGED resp
    /\ UNCHANGED <<now, subscriber, served, dvars, svars, fvars, not_avars>>

\* api_key_required, lines 80-94: is_rate_limited on the loaded object. The
\* reset saves the whole object; a limited request is logged and answered
\* with 429.
RateCheck(w) ==
    /\ req[w].pc = "check"
    /\ LET obj == AfterReset(req[w].obj, now)
       IN  /\ IF WindowElapsed(req[w].obj, now)
              THEN /\ subscriber' = obj
                   /\ served' = 0
              ELSE UNCHANGED <<subscriber, served>>
           /\ IF IsRateLimited(obj)
              THEN /\ Respond(req[w].key, 429, FALSE)
                   /\ req' = [req EXCEPT ![w] = NoRequest]
              ELSE /\ req' = [req EXCEPT ![w].pc = "handler", ![w].obj = obj]
                   /\ UNCHANGED resp
    /\ UNCHANGED <<now, auth_calls, dvars, svars, fvars, not_avars>>

\* api_key_required, lines 97-100: the wrapped view runs. The wrapped views
\* catch their own exceptions and return a response.
Handler(w) ==
    /\ req[w].pc = "handler"
    /\ served' = served + 1
    /\ req' = [req EXCEPT ![w].pc = "increment", ![w].ran = TRUE]
    /\ UNCHANGED <<now, subscriber, resp, auth_calls, dvars, svars, fvars,
                   not_avars>>

\* api_key_required, lines 106-125, with increment_request_count (models.py
\* lines 771-776): the object's counter plus one, last_accessed, save of the
\* whole object; then the log and the view's response.
IncrementRequestCount(w) ==
    /\ req[w].pc = "increment"
    /\ subscriber' = [req[w].obj EXCEPT
                         !.request_count = req[w].obj.request_count + 1,
                         !.last_accessed = now]
    /\ Respond(req[w].key, 200, req[w].ran)
    /\ req' = [req EXCEPT ![w] = NoRequest]
    /\ UNCHANGED <<now, served, auth_calls, dvars, svars, fvars, not_avars>>

\* update_api_subscriber, main_app/views.py lines 1291-1303: the admin sets
\* the status of the subscriber.
UpdateApiSubscriber(status) ==
    /\ subscriber.status # status
    /\ subscriber' = [subscriber EXCEPT !.status = status]
    /\ UNCHANGED <<now, req, served, resp, auth_calls, dvars, svars, fvars,
                   not_avars>>

AuthTick ==
    /\ now < MaxAuthNow
    /\ now' = now + 1
    /\ UNCHANGED <<avars, dvars, svars, fvars, not_avars>>

NoRequestInFlight == \A w \in Workers : req[w].pc = "idle"

\* One request at a time.
NextAuth ==
    \/ \E key \in RequestKeys : AuthLoad(Sequential, key)
    \/ RateCheck(Sequential)
    \/ Handler(Sequential)
    \/ IncrementRequestCount(Sequential)
    \/ \E status \in SubscriberStatuses :
          NoRequestInFlight /\ UpdateApiSubscriber(status)
    \/ AuthTick

\* Requests served by several threads or processes of the web server.
NextAuthRace ==
    \/ \E w \in Workers, key \in RequestKeys : AuthLoad(w, key)
    \/ \E w \in Workers : RateCheck(w)
    \/ \E w \in Workers : Handler(w)
    \/ \E w \in Workers : IncrementRequestCount(w)
    \/ \E status \in SubscriberStatuses : UpdateApiSubscriber(status)
    \/ AuthTick

----------------------------------------------------------------------------
(* The specifications *)

SignalIdle ==
    /\ signals = <<>>
    /\ expiry = <<>>
    /\ issued = {}
    /\ epc = <<>>
    /\ eloc = <<>>

FusionIdle == fusion = <<>>

RowsIdle ==
    /\ rows = {}
    /\ next_pk = 0
    /\ goc = <<>>
    /\ goc_calls = 0

GenerateIdle ==
    /\ generated = {}
    /\ metadata = <<>>
    /\ gen = <<>>
    /\ cmd = <<>>
    /\ next_id = 0
    /\ gen_calls = 0

CacheIdle ==
    /\ cache = <<>>
    /\ api_key = FALSE
    /\ first = <<>>
    /\ an = <<>>
    /\ an_calls = 0

ScoresIdle == scoring = <<>>

SignIdle ==
    /\ secret_key = <<>>
    /\ sign = <<>>
    /\ sent = <<>>

RsiIdle == rsi = <<>>

AuthIdle ==
    /\ subscriber = <<>>
    /\ req = <<>>
    /\ served = 0
    /\ resp = <<>>
    /\ auth_calls = 0

Init ==
    /\ now = 0
    /\ DeliveryInit
    /\ SignalIdle
    /\ FusionIdle
    /\ RowsIdle
    /\ GenerateIdle
    /\ CacheIdle
    /\ ScoresIdle
    /\ SignIdle
    /\ RsiIdle
    /\ AuthIdle

InitSignal ==
    /\ now = 0
    /\ DeliveryInit
    /\ SignalInit
    /\ FusionIdle
    /\ RowsIdle
    /\ GenerateIdle
    /\ CacheIdle
    /\ ScoresIdle
    /\ SignIdle
    /\ RsiIdle
    /\ AuthIdle

InitFusion ==
    /\ now = 0
    /\ DeliveryInit
    /\ SignalIdle
    /\ FusionInit
    /\ RowsIdle
    /\ GenerateIdle
    /\ CacheIdle
    /\ ScoresIdle
    /\ SignIdle
    /\ RsiIdle
    /\ AuthIdle

Spec == Init /\ [][Next]_vars

SpecRace == Init /\ [][NextRace]_vars

SpecSignal == InitSignal /\ [][NextSignal]_vars

SpecFusion == InitFusion /\ [][NextFusion]_vars

\* A delivery task and the periodic sweep at work at the same time, with
\* the callbacks of the subscribers: deliver_signal_to_subscriber runs in
\* one worker, retry_failed_deliveries in another.
Sweeper == "w2"

NextSweepRace ==
    \/ /\ calls < MaxSweepCalls
       /\ \E p \in Pairs : DeliverToSubscriber(Sequential, p)
    \/ \E w \in Workers : StartAttempt(w)
    \/ \E w \in Workers, o \in Outcomes : Post(w, o)
    \/ \E w \in Workers : Wake(w)
    \/ PassTime
    \/ /\ calls < MaxSweepCalls
       /\ RetryFailedDeliveries(Sweeper)
    \/ RetryNext(Sweeper)
    \/ RetryReturn(Sweeper)
    \/ /\ calls < MaxSweepCalls
       /\ \E p \in Pairs, st \in CallbackStatuses, e \in CallbackErrors :
             DeliveryStatusCallback(p, st, e)

SpecSweepRace == Init /\ [][NextSweepRace]_vars

\* The attempt loop and its callers with the scheduling the code has: a
\* running attempt loop always takes its next step (the worker is a plain
\* thread of control), a POST always ends (timeout=30), and the clock moves.
Fairness ==
    /\ WF_vars(StartAttempt(Sequential))
    /\ WF_vars(\E o \in Outcomes : Post(Sequential, o))
    /\ WF_vars(Wake(Sequential))
    /\ WF_vars(PassTime)

SpecFair == Init /\ [][NextLoop]_vars /\ Fairness

InitRows ==
    /\ now = 0
    /\ DeliveryInit
    /\ SignalIdle
    /\ FusionIdle
    /\ RowsInit
    /\ GenerateIdle
    /\ CacheIdle
    /\ ScoresIdle
    /\ SignIdle
    /\ RsiIdle
    /\ AuthIdle

SpecRows == InitRows /\ [][NextRows]_vars

InitGenerate ==
    /\ now = 0
    /\ DeliveryInit
    /\ SignalIdle
    /\ FusionIdle
    /\ RowsIdle
    /\ GenerateInit
    /\ CacheIdle
    /\ ScoresIdle
    /\ SignIdle
    /\ RsiIdle
    /\ AuthIdle

SpecGenerate == InitGenerate /\ [][NextGenerate]_vars

InitCache ==
    /\ now = 0
    /\ DeliveryInit
    /\ SignalIdle
    /\ FusionIdle
    /\ RowsIdle
    /\ GenerateIdle
    /\ CacheInit
    /\ ScoresIdle
    /\ SignIdle
    /\ RsiIdle
    /\ AuthIdle

SpecCache == InitCache /\ [][NextCache]_vars

InitScores ==
    /\ now = 0
    /\ DeliveryInit
    /\ SignalIdle
    /\ FusionIdle
    /\ RowsIdle
    /\ GenerateIdle
    /\ CacheIdle
    /\ ScoresInit
    /\ SignIdle
    /\ RsiIdle
    /\ AuthIdle

SpecScores == InitScores /\ [][NextScores]_vars

InitSign ==
    /\ now = 0
    /\ DeliveryInit
    /\ SignalIdle
    /\ FusionIdle
    /\ RowsIdle
    /\ GenerateIdle
    /\ CacheIdle
    /\ ScoresIdle
    /\ SignInit
    /\ RsiIdle
    /\ AuthIdle

SpecSign == InitSign /\ [][NextSign]_vars

InitRsi ==
    /\ now = 0
    /\ DeliveryInit
    /\ SignalIdle
    /\ FusionIdle
    /\ RowsIdle
    /\ GenerateIdle
    /\ CacheIdle
    /\ ScoresIdle
    /\ SignIdle
    /\ RsiInit
    /\ AuthIdle

SpecRsi == InitRsi /\ [][NextRsi]_vars

InitAuth ==
    /\ now = 0
    /\ DeliveryInit
    /\ SignalIdle
    /\ FusionIdle
    /\ RowsIdle
    /\ GenerateIdle
    /\ CacheIdle
    /\ ScoresIdle
    /\ SignIdle
    /\ RsiIdle
    /\ AuthInit

SpecAuth == InitAuth /\ [][NextAuth]_vars

SpecAuthRace == InitAuth /\ [][NextAuthRace]_vars

----------------------------------------------------------------------------
(* The claims *)

InLoop(w) == pc[w] \in {"attempt", "post", "sleep"}

\* A deliver_signal_to_subscriber call has just returned.
DeliverReturns == ev'.seq # ev.seq /\ ev'.op = "deliver"

\* C1, as stated: deliver_signal_to_subscriber called for a pair whose
\* delivery row is already delivered makes no POST, returns True and leaves
\* the row as it was, at every such call.
C1_DeliveredIsNoOpSuccess ==
    [][(DeliverReturns /\ ev'.pre = "delivered")
          => /\ ev'.result = "True"
             /\ ev'.n = 0
             /\ posts' = posts
             /\ delivery' = delivery]_vars

\* C1, amended: for a subscriber that has a webhook_url,
\* deliver_signal_to_subscriber called for a pair whose delivery row is
\* already delivered makes no POST, returns True and leaves the row as it
\* was, at every such call; without a webhook_url it makes no POST and
\* leaves the row as it was, too, but returns False.
C1_DeliveredIsNoOp ==
    [][(DeliverReturns /\ ev'.pre = "delivered")
          => /\ ev'.result = IF webhook_url[ev'.pair[2]] # "" THEN "True"
                             ELSE "False"
             /\ ev'.n = 0
             /\ posts' = posts
             /\ delivery' = delivery]_vars

\* C1, witness: a call on a delivered pair has returned True without a POST,
\* after an earlier no-op call on the same pair.
C1_Witness ==
    /\ ev.op = "deliver" /\ ev.pre = "delivered" /\ ev.result = "True"
    /\ ev.n = 0
    /\ delivery[ev.pair].status = "delivered"
    /\ posts[ev.pair] = 1
    /\ calls >= 3

Opposed(a, b) ==
    \/ a \in BuyFamily /\ b \in SellFamily
    \/ a \in SellFamily /\ b \in BuyFamily

Fused == fusion.combined_type # "none"

\* C3, as stated: whenever one type is of the buy family and the other of
\* the sell family, the fused type is hold, whatever the confidences.
C3_OpposedGivesHold ==
    (Fused /\ Opposed(fusion.gpt_type, fusion.technical_type))
        => fusion.combined_type = "hold"

\* C3, amended: whenever one type is of the buy family and the other of the
\* sell family, the fused type is hold if both are strong or neither is,
\* and the strong one of the two if exactly one is strong, whatever the
\* confidences.
C3_OpposedGivesHoldOrStrong ==
    (Fused /\ Opposed(fusion.gpt_type, fusion.technical_type))
        => fusion.combined_type =
              IF IsStrong(fusion.gpt_type) = IsStrong(fusion.technical_type)
              THEN "hold"
              ELSE IF IsStrong(fusion.gpt_type) THEN fusion.gpt_type
              ELSE fusion.technical_type

\* C3, witness: buy against sell, at the highest confidences, fused to hold.
C3_Witness ==
    /\ fusion.gpt_type = "buy" /\ fusion.technical_type = "sell"
    /\ fusion.gpt_confidence = 100 /\ fusion.technical_confidence = 100
    /\ fusion.combined_type = "hold"

C4_NoPostAfterDelivered ==
    [][\A p \in Pairs :
          (delivery[p] # NoRow /\ delivery[p].status = "delivered")
             => posts'[p] = posts[p]]_vars

\* C5: delivered is terminal: no operation changes the status of a
\* delivered row.
C5_DeliveredIsTerminal ==
    [][\A p \in Pairs :
          (delivery[p] # NoRow /\ delivery[p].status = "delivered")
             => delivery'[p].status = "delivered"]_vars

\* The subscribers deliver_signal_to_all_subscribers is to serve: active,
\* with a webhook_url, and passing the ticker, confidence and type filters.
Matches(s, sub) ==
    /\ SubscriberStatus(sub) = "active"
    /\ webhook_url[sub] # ""
    /\ SubscribedTickers(sub) = {} \/ SignalTicker(s) \in SubscribedTickers(sub)
    /\ MinConfidenceThreshold(sub) <= SignalConfidence(s)
    /\ SubscriberSignalTypes(sub) = {} \/ SignalTypeOf(s) \in SubscriberSignalTypes(sub)

BatchRuns(s) == batch'[s] # batch[s]

\* C6: deliver_signal_to_all_subscribers attempts delivery to a subscriber
\* if and only if the subscriber matches; a subscriber with empty lists and
\* threshold 0.5 is attempted for a signal of confidence >= 0.5.
C6_AttemptsExactlyMatching ==
    [][\A s \in SignalIds :
          BatchRuns(s)
             => batch'[s].attempted = {sub \in Subscribers : Matches(s, sub)}]_vars

\* C8: in deliver_signal_to_all_subscribers every matching subscriber gets
\* a delivery row and at least one attempt, whatever happens to the others,
\* and the result list has one entry per matching subscriber.
C8_FailureDoesNotBlockOthers ==
    [][\A s \in SignalIds :
          BatchRuns(s)
             => /\ \A sub \in Subscribers :
                      Matches(s, sub)
                         => /\ delivery'[<<s, sub>>] # NoRow
                            /\ delivery'[<<s, sub>>].delivery_attempts >= 1
                /\ Len(batch'[s].results)
                      = Cardinality({sub \in Subscribers : Matches(s, sub)})]_vars

\* C7: an invocation that entered the attempt loop makes at most 5 POSTs
\* and returns; when it returns, the row is delivered (True) or failed
\* (False) with the error of the last attempt recorded, never pending or
\* retrying.
C7_LoopEndsDeliveredOrFailed ==
    /\ [](\A w \in Workers : InLoop(w) => inv[w].n < max_retry_attempts)
    /\ [][(DeliverReturns /\ ev'.n >= 1)
             => /\ ev'.n <= 5
                /\ \/ /\ ev'.result = "True" /\ ev'.last = "200"
                      /\ delivery'[ev'.pair].status = "delivered"
                   \/ /\ ev'.result = "False" /\ ev'.last # "200"
                      /\ delivery'[ev'.pair].status = "failed"
                      /\ delivery'[ev'.pair].error_message = ErrorText(ev'.last)]_vars
    /\ (InLoop(Sequential) ~> ~InLoop(Sequential))

\* C7, witness: a loop has returned False after 200-less attempts, the last
\* a non-200 response, with the row failed.
C7_Witness ==
    /\ ev.op = "deliver" /\ ev.n = 5 /\ ev.result = "False"
    /\ ev.last = "non200"
    /\ delivery[ev.pair].status = "failed"
    /\ delivery[ev.pair].error_message = "HTTP error"

\* The rows the sweep is to take up, in the words of the claim.
DueForRetry(p) ==
    /\ delivery[p] # NoRow
    /\ delivery[p].status = "failed"
    /\ delivery[p].next_retry # NoTime /\ delivery[p].next_retry <= now
    /\ delivery[p].delivery_attempts < 5

PastExpiry(id) ==
    /\ signals[id] # NoSignal
    /\ signals[id].status = "active"
    /\ signals[id].expiry_time # NoTime /\ signals[id].expiry_time < now

\* C11: expire_old_signals turns to expired exactly the active signals
\* whose expiry_time is earlier than now and returns their number; a call
\* made right after another returns 0 and changes no signal.
C11_ExpireIsIdempotent ==
    [][/\ expiry'.calls > expiry.calls
          => /\ expiry'.expired_count
                   = Cardinality({id \in SignalRows : PastExpiry(id)})
             /\ \A id \in SignalRows :
                   signals'[id] = IF PastExpiry(id)
                                  THEN [signals[id] EXCEPT !.status = "expired"]
                                  ELSE signals[id]
       /\ expiry'.calls = 2
          => expiry'.expired_count = 0 /\ signals' = signals]_vars

\* C11, witness: a second call in a row has returned 0, with an expired
\* signal in the table beside one still active.
C11_Witness ==
    /\ expiry.calls = 2 /\ expiry.expired_count = 0
    /\ \E id \in SignalRows : signals[id].status = "expired"
    /\ \E id \in SignalRows :
          signals[id].status = "active" /\ signals[id].expiry_time # NoTime

\* C12: the table never holds two SignalDelivery rows for one (signal,
\* subscriber) pair: repeated and concurrent calls for a pair get the one
\* row there is, and saving it changes the row in place.
C12_OneRowPerPair ==
    /\ \A p \in Pairs : Cardinality(RowsOf(rows, p)) <= 1
    /\ \A w \in Workers :
          goc[w].pc = "held"
             => RowsOf(rows, goc[w].pair)
                   = {r \in rows : r.pk = goc[w].pk}

\* C12, witness: two concurrent calls for one pair both hold its only row,
\* one having created it and the other having been refused the INSERT.
C12_Witness ==
    \E v, w \in Workers :
        /\ v # w
        /\ goc[v].pc = "held" /\ goc[w].pc = "held"
        /\ goc[v].pair = goc[w].pair
        /\ goc[v].created /\ ~goc[w].created
        /\ goc[v].pk = goc[w].pk
        /\ Cardinality(rows) = 2

\* A generate_signal call has just returned (or raised).
GenerateReturns == gen'.seq # gen.seq

Range(seq) == {seq[k] : k \in DOMAIN seq}

\* C13, as stated: generate_signal never raises to its caller; it returns
\* None for an unknown ticker, for a source outside the three, and after
\* any exception raised during scoring; the generate_signals command
\* attempts every ticker of its list, whatever the earlier calls returned.
C13_NeverRaisesReturnsNone ==
    /\ [][GenerateReturns
             => /\ ~gen'.raised
                /\ (\/ gen'.ticker \notin KnownTickers
                    \/ gen'.source \notin {"gpt_analysis", "market_data", "combined"}
                    \/ gen'.lookup_exc
                    \/ gen'.scoring_exc)
                      => gen'.result = 0]_vars
    /\ [](cmd.pc = "done" => cmd.attempted = Range(cmd.list))

\* C13, amended: generate_signal never raises to its caller; it returns
\* None for an unknown ticker, for a source outside the three, and after
\* an exception raised during scoring on the gpt_analysis or market_data
\* source; on the combined source an exception in the scoring of one path
\* makes that path yield nothing, and the call returns the signal of the
\* other path if there is one, None otherwise; the generate_signals
\* command attempts every ticker of its list, whatever the earlier calls
\* returned.
C13_NeverRaises ==
    /\ [][GenerateReturns
             => /\ ~gen'.raised
                /\ (\/ gen'.ticker \notin KnownTickers
                    \/ gen'.source \notin {"gpt_analysis", "market_data", "combined"}
                    \/ gen'.lookup_exc
                    \/ gen'.scoring_exc /\ gen'.source # "combined")
                      => gen'.result = 0
                /\ (gen'.scoring_exc /\ gen'.source = "combined" /\ gen'.result # 0)
                      => \E g \in generated' :
                            /\ g.id = gen'.result
                            /\ g.source \in {"gpt_analysis", "market_data"}]_vars
    /\ [](cmd.pc = "done" => cmd.attempted = Range(cmd.list))

\* C13, witness: the command has gone through a list of two tickers, the
\* call for the last of them having returned None after an exception in
\* scoring.
C13_Witness ==
    /\ cmd.pc = "done" /\ Len(cmd.list) = 2
    /\ cmd.attempted = Range(cmd.list)
    /\ gen.by = "command" /\ gen.scoring_exc /\ gen.result = 0 /\ ~gen.raised

\* C14: whenever generate_signal returns a signal, exactly one
\* SignalMetadata row exists for that signal when the call returns.
C14_ReturnedSignalHasMetadata ==
    [][(GenerateReturns /\ gen'.result # 0)
          => /\ gen'.result \in DOMAIN metadata'
             /\ metadata'[gen'.result] = 1]_vars

\* An analysis call has just returned that is not the first for its
\* article, the first having been made less than cache_duration ago.
RepeatWithinTTL ==
    /\ an'.seq # an.seq
    /\ an'.repeat
    /\ now < first[an'.key].at + cache_duration

\* C15, as stated: every further call for an article within the TTL of the
\* first returns what the first call returned and does not invoke the
\* classifier, also when the first call ended in the default.
C15_RepeatsReturnFirstResult ==
    [][RepeatWithinTTL
          => /\ an'.result = first[an'.key].result
             /\ ~an'.invoked]_vars

\* C15, amended: every further call for an article within the TTL of the
\* first returns what the first call returned and does not invoke the
\* classifier, when the first call got its result from the classifier or
\* ended in the default for want of a credential; a first call that ended
\* in the default because the classifier failed caches nothing, and each
\* further call invokes the classifier again until one call succeeds.
C15_RepeatsReturnCachedResult ==
    [][RepeatWithinTTL
          => /\ first[an'.key].from \in {"classifier", "unavailable"}
                  => /\ an'.result = first[an'.key].result
                     /\ ~an'.invoked
             /\ (first[an'.key].from = "failure" /\ cache[an'.key] = NoEntry)
                  => an'.invoked]_vars

\* C15, witness: a second call for an article, half an hour after the
\* first, has returned the classifier's answer to the first call without
\* invoking the classifier.
C15_Witness ==
    /\ an.repeat /\ ~an.invoked
    /\ first[an.key].from = "classifier"
    /\ an.result = first[an.key].result
    /\ now = first[an.key].at + HalfHour

\* The mapping of the claim: the type for combined = c / (1000 * n).
C16_TypeOf(c, n) ==
    IF c > 800 * n THEN "strong_buy"
    ELSE IF c > 500 * n THEN "buy"
    ELSE IF c < -800 * n THEN "strong_sell"
    ELSE IF c < -500 * n THEN "sell"
    ELSE "hold"

\* C16: in the gpt_analysis path, with combined = 0.7 * avg_sentiment + 0.3
\* * avg_impact, the type is strong_buy above 0.8, buy above 0.5,
\* strong_sell below -0.8, sell below -0.5 and hold otherwise, and the
\* confidence is |combined| * avg_impact clamped to [0.1, 1]; one article
\* of sentiment positive/0.8 and impact high/0.9 gives buy with confidence
\* 0.5958.
C16_GptSignalFromScores ==
    /\ [](scoring.phase # "articles" /\ scoring.analyzed_count > 0
            => LET n == scoring.analyzed_count
                   c == 7 * scoring.total_sentiment + 3 * scoring.total_impact
                   product == Abs(c) * scoring.total_impact
                   one == 100000 * n * n
               IN  /\ scoring.gpt.signal_type = C16_TypeOf(c, n)
                   /\ scoring.gpt.confidence.den = one
                   /\ scoring.gpt.confidence.num =
                         IF product > one THEN one
                         ELSE IF 10 * product < one THEN one \div 10
                         ELSE product)
    /\ [][(scoring.phase = "articles"
              /\ scoring.articles =
                    <<[gpt_sentiment |-> "positive", gpt_impact |-> "high",
                       gpt_sentiment_confidence |-> 8,
                       gpt_impact_confidence |-> 9]>>)
             => /\ scoring'.gpt.signal_type = "buy"
                /\ 10000 * scoring'.gpt.confidence.num
                      = 5958 * scoring'.gpt.confidence.den]_vars

\* C16, witness: the scoring of the one article of the example has given
\* avg_sentiment 0.56 and avg_impact 0.9, and buy with confidence 0.5958.
C16_Witness ==
    /\ scoring.phase = "gpt"
    /\ scoring.analyzed_count = 1
    /\ scoring.total_sentiment = 56 /\ scoring.total_impact = 90
    /\ scoring.gpt.signal_type = "buy"
    /\ scoring.gpt.confidence = [num |-> 59580, den |-> 100000]

InUnitInterval(q) == q.den > 0 /\ 0 <= q.num /\ q.num <= q.den

\* C17: every signal a path persists has one of the five signal types and
\* a confidence within [0, 1]: the signal of the gpt_analysis path, that
\* of the market_data path and that of the combined path.
C17_TypeAndConfidenceInRange ==
    /\ (scoring.phase # "articles" /\ scoring.gpt # NoSignalScore)
          => /\ scoring.gpt.signal_type \in SignalTypes
             /\ InUnitInterval(scoring.gpt.confidence)
    /\ scoring.phase \in {"technical", "combined"}
          => /\ scoring.technical.signal_type \in SignalTypes
             /\ InUnitInterval(scoring.technical.confidence)
    /\ scoring.phase = "combined"
          => /\ scoring.combined.signal_type \in SignalTypes
             /\ InUnitInterval(scoring.combined.confidence)

\* C17, witness: a combined signal persisted with the technical confidence
\* at 1 and the type strong_sell, fused from hold and strong_sell.
C17_Witness ==
    /\ scoring.phase = "combined"
    /\ scoring.overall_score = 0
    /\ scoring.technical.confidence = [num |-> 100, den |-> 100]
    /\ scoring.gpt.signal_type = "hold"
    /\ scoring.combined.signal_type = "strong_sell"
    /\ scoring.combined.confidence.num < scoring.combined.confidence.den

NoLossInTrailingPeriod(prices) ==
    \A i \in (Len(prices) - period + 1)..Len(prices) :
        prices[i] >= prices[i - 1]

\* C19: _calculate_rsi returns a value in [0, 100] for every series:
\* exactly 50 for fewer than 15 prices, exactly 100 for at least 15 prices
\* whose last 14 deltas have no loss.
C19_RsiInRange ==
    rsi.result # NoRsi =>
        /\ rsi.result.den > 0
        /\ 0 <= rsi.result.num
        /\ rsi.result.num <= 100 * rsi.result.den
        /\ Len(rsi.prices) < period + 1 =>
               rsi.result.num = 50 * rsi.result.den
        /\ (Len(rsi.prices) >= period + 1
              /\ NoLossInTrailingPeriod(rsi.prices)) =>
               rsi.result.num = 100 * rsi.result.den

\* A series of more than 15 prices that lost before its last 14 deltas and
\* not within them has been given its index.
C19_Witness ==
    /\ rsi.result # NoRsi
    /\ Len(rsi.prices) > period + 1
    /\ rsi.prices[2] < rsi.prices[1]
    /\ NoLossInTrailingPeriod(rsi.prices)
    /\ rsi.result.num = 100 * rsi.result.den

\* An attempt loop has just come to its end.
LoopReturns == ev'.seq # ev.seq /\ ev'.n >= 1

DeliveryStatuses == {"pending", "retrying", "delivered", "failed"}

\* C21: the delivery-status callback takes only delivered or failed, so
\* the status of every SignalDelivery row is one of pending, retrying,
\* delivered, failed in every reachable state.
C21_StatusStaysInChoices ==
    \A p \in Pairs :
        delivery[p] # NoRow => delivery[p].status \in DeliveryStatuses

\* C22: a generate_signal call with source combined adds exactly one row to
\* the persisted TradingSignals when it returns a signal and none when it
\* returns None: the gpt and technical signals made on the way are never
\* left in the table, even when an error occurs after their creation.
C22_CombinedLeavesOneSignal ==
    [][(GenerateReturns /\ gen'.source = "combined")
          => /\ generated \subseteq generated'
             /\ Cardinality(generated' \ generated)
                   = IF gen'.result # 0 THEN 1 ELSE 0
             /\ \A g \in generated' \ generated : g.id = gen'.result]_vars

StrongTypes == {"strong_buy", "strong_sell"}

\* C23: _combine_signal_types returns identical input types unchanged, and
\* when exactly one input is strong_buy or strong_sell and the other is
\* neither, it returns the strong input, for every pair of the five types.
C23_IdenticalAndStrongPassThrough ==
    Fused =>
        /\ fusion.gpt_type = fusion.technical_type
              => fusion.combined_type = fusion.gpt_type
        /\ (fusion.gpt_type \in StrongTypes
               /\ fusion.technical_type \notin StrongTypes)
              => fusion.combined_type = fusion.gpt_type
        /\ (fusion.technical_type \in StrongTypes
               /\ fusion.gpt_type \notin StrongTypes)
              => fusion.combined_type = fusion.technical_type

\* C23, witness: hold fused with strong_sell has given strong_sell.
C23_Witness ==
    /\ fusion.gpt_type = "hold" /\ fusion.technical_type = "strong_sell"
    /\ fusion.combined_type = "strong_sell"

\* The articles of a list that carry both a sentiment and an impact.
ScoredIn(articles) ==
    {k \in DOMAIN articles :
        articles[k].gpt_sentiment # "" /\ articles[k].gpt_impact # ""}

\* C24: in the gpt_analysis path an unscored article gets a scoring call,
\* an article still without sentiment or impact is skipped, the signal is
\* computed from the scored articles that remain, and the path gives None
\* only when no article was scored.
C24_UnscoredArticlesAreSkipped ==
    [][(scoring.phase = "articles" /\ scoring'.phase = "gpt")
          => /\ scoring'.analyzed_count
                   = Cardinality(ScoredIn(scoring.articles))
             /\ scoring'.gpt = NoSignalScore
                   <=> ScoredIn(scoring.articles) = {}]_vars

\* Every confidence of every article of the list lies in [0, 1].
ConfidencesInUnitInterval(articles) ==
    \A k \in DOMAIN articles :
        /\ articles[k].gpt_sentiment_confidence \in 0 .. 10
        /\ articles[k].gpt_impact_confidence \in 0 .. 10

\* C28: with all article confidences in [0, 1], the combined score of the
\* gpt_analysis path, 0.7 * avg_sentiment + 0.3 * avg_impact, lies in
\* [-0.49, 0.79], and the path yields hold or buy only, never strong_buy,
\* sell or strong_sell.
C28_GptPathGivesHoldOrBuy ==
    [][(scoring.phase = "articles" /\ scoring'.phase = "gpt"
           /\ ConfidencesInUnitInterval(scoring.articles)
           /\ scoring'.gpt # NoSignalScore)
          => LET n == scoring'.analyzed_count
                 c == 7 * scoring'.total_sentiment + 3 * scoring'.total_impact
             IN  /\ -490 * n <= c /\ c <= 790 * n
                 /\ scoring'.gpt.signal_type \in {"hold", "buy"}]_vars

\* C28, witness: one article, positive and of high impact with both
\* confidences 1.0, has given the combined score 0.79 and buy.
C28_Witness ==
    /\ scoring.phase = "gpt"
    /\ scoring.analyzed_count = 1
    /\ scoring.total_sentiment = 70 /\ scoring.total_impact = 100
    /\ scoring.gpt.signal_type = "buy"

\* C26: after any sequence of deliver_signal_to_subscriber calls, sweeps
\* and delivery-status callbacks for a pair, the delivery_attempts of its
\* row never exceeds the maximum of 5.
C26_AttemptsNeverExceedMax ==
    \A p \in Pairs :
        delivery[p] # NoRow => delivery[p].delivery_attempts <= 5

\* The latest return was that of an attempt loop that exhausted its 5
\* attempts for pair p, and the row stands as that loop left it.
FailedByExhaustion(p) ==
    /\ ev.pair = p /\ ev.result = "False" /\ ev.n = 5
    /\ delivery[p].status = "failed"

CheckedInOrder(key) ==
    IF key # SubscriberKey THEN 401
    ELSE IF subscriber.status # "active" THEN 403
    ELSE IF AfterReset(subscriber, now).request_count >= rate_limit_per_hour
    THEN 429
    ELSE 200

Rejections == {401, 403, 429}

\* C25: api_key_required checks the key (401), then the status (403), then
\* the rate limit (429), and only then runs the handler and increments
\* request_count; a rejected request neither runs the handler nor
\* increments request_count.
C25_ChecksInOrderRejectedNotCounted ==
    [][resp'.seq # resp.seq =>
          /\ resp'.code = CheckedInOrder(resp'.key)
          /\ resp'.code \in Rejections =>
                /\ ~resp'.ran
                /\ served' <= served
                /\ subscriber'.request_count <= subscriber.request_count
          /\ resp'.code \notin Rejections =>
                /\ resp'.ran
                /\ subscriber'.request_count
                      = subscriber.request_count + 1]_vars

\* A request is answered 429 after the handler ran for as many requests as
\* the limit allows.
C25_Witness ==
    /\ resp.code = 429
    /\ served = rate_limit_per_hour
    /\ subscriber.request_count = rate_limit_per_hour

\* C30: between two resets of the counter the handler runs for at most
\* rate_limit_per_hour requests, and request_count is the number of these
\* requests once they have returned, also when requests of the subscriber
\* are processed concurrently.
C30_CountEqualsServedWithinLimit ==
    /\ served <= rate_limit_per_hour
    /\ NoRequestInFlight => subscriber.request_count = served

\* C29: generate_signal creates its signals without an expiry_time, so
\* expire_old_signals never changes a generated signal: it stays active,
\* with no expiry_time, until execute_signal_api marks it executed.
C29_GeneratedSignalsNeverExpire ==
    [][\A id \in issued' :
          /\ signals'[id].expiry_time = NoTime
          /\ signals'[id].status \in {"active", "executed"}
          /\ (id \in issued /\ signals'[id].status # signals[id].status)
                => /\ signals'[id].status = "executed"
                   /\ \E r \in Requests : epc[r] = "loaded" /\ eloc[r].id = id
                                          /\ epc'[r] = "idle"]_vars

\* expire_old_signals has just run at the last clock value, where it
\* expired a stored signal and left a generated one active.
C29_Witness ==
    /\ now = MaxNow
    /\ expiry.calls = 1
    /\ expiry.expired_count >= 1
    /\ \E id \in issued : signals[id].status = "active"

====
